---- MODULE Spec2Model ----
(***************************************************************************)
(* JSON-to-Variant encoder of the `variant` crate (src/variant/src/json.rs) *)
(* as a state machine: one json_to_variant call, stepped through the       *)
(* recursive VariantBuilder::build with an explicit stack of open          *)
(* containers.                                                             *)
(*                                                                         *)
(* Byte slices are kept run-length encoded (a sequence of runs [b, n]      *)
(* standing for n copies of byte b, adjacent runs always of different      *)
(* bytes) so that buffers as large as the 16 MiB size limit are            *)
(* representable.  Integers wider than 31 bits are kept as little-endian   *)
(* byte sequences, which is also how the code ends up writing them.        *)
(***************************************************************************)
EXTENDS Integers, Sequences, FiniteSets, TLC

(***************************************************************************)
(* Constants of variant_utils.rs and json.rs                               *)
(***************************************************************************)
VERSION == 1
PRIMITIVE == 0
SHORT_STR == 1
OBJECT == 2
ARRAY == 3
NULL == 0
TRUE_T == 1
FALSE_T == 2
INT1 == 3
INT2 == 4
INT4 == 5
INT8 == 6
DOUBLE == 7
DECIMAL4 == 8
DECIMAL8 == 9
DECIMAL16 == 10
LONG_STR == 16
MAX_SHORT_STR_SIZE == 63
U8_SIZE == 1
U16_SIZE == 2
U24_SIZE == 3
U32_SIZE == 4
U64_SIZE == 8
U8_MAX == 255
U16_MAX == 65535
MAX_PRECISION_DECIMAL_4 == 9
MAX_PRECISION_DECIMAL_8 == 18
DEFAULT_SIZE_LIMIT == 16 * 1024 * 1024

(***************************************************************************)
(* Run-length encoded byte slices ([u8])                                   *)
(***************************************************************************)
Run(b, n) == IF n = 0 THEN <<>> ELSE << [b |-> b, n |-> n] >>

\* the recursions over slices and tables below split in halves, so that
\* their depth stays logarithmic in the number of runs
RECURSIVE BLen(_)
BLen(s) ==
    IF s = <<>> THEN 0
    ELSE IF Len(s) = 1 THEN s[1].n
    ELSE LET h == Len(s) \div 2
         IN  BLen(SubSeq(s, 1, h)) + BLen(SubSeq(s, h + 1, Len(s)))

\* concatenation, merging the two runs that meet when they hold the same byte
BCat(s, t) ==
    IF s = <<>> THEN t
    ELSE IF t = <<>> THEN s
    ELSE IF s[Len(s)].b = t[1].b
         THEN SubSeq(s, 1, Len(s) - 1)
              \o << [b |-> t[1].b, n |-> s[Len(s)].n + t[1].n] >>
              \o Tail(t)
         ELSE s \o t

\* the first k bytes of s (all of s when it is shorter)
RECURSIVE BTake(_, _)
BTake(s, k) ==
    IF k <= 0 \/ s = <<>> THEN <<>>
    ELSE IF Len(s) = 1 THEN << [b |-> s[1].b, n |-> IF s[1].n >= k THEN k ELSE s[1].n] >>
    ELSE LET h == Len(s) \div 2
             left == SubSeq(s, 1, h)
             n == BLen(left)
         IN  IF k <= n THEN BTake(left, k)
             ELSE left \o BTake(SubSeq(s, h + 1, Len(s)), k - n)

\* s without its first k bytes
RECURSIVE BDrop(_, _)
BDrop(s, k) ==
    IF k <= 0 \/ s = <<>> THEN s
    ELSE IF Len(s) = 1
         THEN IF s[1].n > k THEN << [b |-> s[1].b, n |-> s[1].n - k] >> ELSE <<>>
    ELSE LET h == Len(s) \div 2
             left == SubSeq(s, 1, h)
             right == SubSeq(s, h + 1, Len(s))
             n == BLen(left)
         IN  IF k >= n THEN BDrop(right, k - n)
             ELSE BDrop(left, k) \o right

\* the bytes at indices [i, j) of s, indices counted from 0
BSub(s, i, j) == BTake(BDrop(s, i), j - i)

\* the byte at index i of s, counted from 0 (0 past the end)
BAt(s, i) == LET r == BDrop(s, i) IN IF r = <<>> THEN 0 ELSE r[1].b

\* a plain sequence of bytes as a slice
RECURSIVE Bytes(_)
Bytes(q) ==
    IF q = <<>> THEN <<>>
    ELSE IF Len(q) = 1 THEN Run(q[1], 1)
    ELSE LET h == Len(q) \div 2
         IN  BCat(Bytes(SubSeq(q, 1, h)), Bytes(SubSeq(q, h + 1, Len(q))))

\* a slice as a plain sequence of bytes
RECURSIVE Plain(_)
Plain(s) ==
    IF s = <<>> THEN <<>>
    ELSE IF Len(s) = 1 THEN [i \in 1..s[1].n |-> s[1].b]
    ELSE LET h == Len(s) \div 2
         IN  Plain(SubSeq(s, 1, h)) \o Plain(SubSeq(s, h + 1, Len(s)))

\* dst[pos .. pos + len(data)] .copy_from_slice(data)
BWrite(dst, pos, data) ==
    BCat(BCat(BTake(dst, pos), data), BDrop(dst, pos + BLen(data)))

(***************************************************************************)
(* Fixed-width integers as little-endian byte sequences                    *)
(***************************************************************************)
Pow256(w) == CASE w = 0 -> 1 [] w = 1 -> 256 [] w = 2 -> 65536 [] w = 3 -> 16777216

\* usize::to_le_bytes()[..w] for a value below 2^31
LeBytes(v, w) ==
    [i \in 1..w |-> IF i <= 3 THEN (v \div Pow256(i - 1)) % 256
                    ELSE IF i = 4 THEN v \div Pow256(3) ELSE 0]

\* the unsigned integer held in w <= 4 little-endian bytes at index pos; a
\* value of 2^24 or more, which no count or length within the size limit
\* reaches, is read as 2^24
RECURSIVE ReadLe(_, _, _)
ReadLe(buf, pos, w) ==
    IF w = 0 THEN 0
    ELSE LET r == ReadLe(buf, pos + 1, w - 1)
         IN  IF r >= Pow256(2) THEN Pow256(3) ELSE BAt(buf, pos) + 256 * r

\* width of the magnitudes the number parsers work on (covers i128)
MagWidth == 17

ZeroMag == [i \in 1..MagWidth |-> 0]

\* m * 10 + d on a little-endian magnitude; the carry out of the top byte is
\* returned in field c
RECURSIVE MulAdd(_, _, _)
MulAdd(m, i, carry) ==
    IF i > Len(m) THEN [m |-> m, c |-> carry]
    ELSE LET t == m[i] * 10 + carry
         IN  MulAdd([m EXCEPT ![i] = t % 256], i + 1, t \div 256)

\* the magnitude of a string of decimal digits; ovf when it needs more than
\* MagWidth bytes
RECURSIVE DigitsToMag(_, _, _)
DigitsToMag(ds, m, ovf) ==
    IF ds = <<>> THEN [m |-> m, ovf |-> ovf]
    ELSE LET r == MulAdd(m, 1, ds[1])
         IN  IF r.c # 0
             THEN DigitsToMag(Tail(ds), r.m, TRUE)
             ELSE DigitsToMag(Tail(ds), r.m, ovf)

MagOf(ds) == DigitsToMag(ds, ZeroMag, FALSE)

\* a <= b on little-endian magnitudes of the same length
RECURSIVE MagLeq(_, _, _)
MagLeq(a, b, i) ==
    IF i = 0 THEN TRUE
    ELSE IF a[i] < b[i] THEN TRUE
    ELSE IF a[i] > b[i] THEN FALSE
    ELSE MagLeq(a, b, i - 1)

\* every byte above the low w bytes is zero
FitsUnsigned(m, w) == \A i \in (w + 1)..Len(m) : m[i] = 0

\* two's complement negation of the low w bytes
RECURSIVE NegBytes(_, _, _)
NegBytes(m, i, carry) ==
    IF i > Len(m) THEN m
    ELSE LET t == (255 - m[i]) + carry
         IN  NegBytes([m EXCEPT ![i] = t % 256], i + 1, t \div 256)

\* the w-byte two's complement representation of +mag or -mag
TwosComplement(neg, mag, w) ==
    LET low == SubSeq(mag, 1, w)
    IN  IF neg THEN NegBytes(low, 1, 1) ELSE low

\* `x as iN` : keep the low w bytes
Truncate(bytes, w) == SubSeq(bytes, 1, w)

\* `x as i64` / `as i128` from a narrower signed integer: sign extension
SignExtend(bytes, w) ==
    [i \in 1..w |-> IF i <= Len(bytes) THEN bytes[i]
                    ELSE IF bytes[Len(bytes)] >= 128 THEN 255 ELSE 0]

(***************************************************************************)
(* JSON texts and serde_json values                                        *)
(*                                                                         *)
(* A text is kept tokenised: null, booleans, number literals as their      *)
(* digit strings (sign, integer digits, fraction digits, exponent),        *)
(* strings as byte slices, arrays as sequences, objects as sequences of    *)
(* <<key, text>> members exactly as written (a key may repeat), keys as    *)
(* plain byte sequences.  [k |-> "invalid"] stands for a text that does    *)
(* not parse.                                                              *)
(***************************************************************************)
JNull == [k |-> "null"]
JBool(b) == [k |-> "bool", b |-> b]
JNum(neg, ip, fp, ex) == [k |-> "num", neg |-> neg, ip |-> ip, fp |-> fp, ex |-> ex]
JInt(neg, ip) == JNum(neg, ip, <<>>, <<>>)
JStr(s) == [k |-> "str", s |-> s]
JArr(e) == [k |-> "arr", e |-> e]
JObj(m) == [k |-> "obj", m |-> m]
JInvalid == [k |-> "invalid"]

\* an insert that never replaces: every member of the text stays a member
MapInsertAppend(m, key, v) == Append(m, <<key, v>>)

\* an insert that leaves a key that is already present with its value
MapInsertKeepFirst(m, key, v) ==
    IF \E i \in 1..Len(m) : m[i][1] = key THEN m ELSE Append(m, <<key, v>>)

\* IndexMap::insert (serde_json::Map with preserve_order): a key that is
\* already present keeps its position and takes the new value
MapInsert(m, key, v) ==
    IF \E i \in 1..Len(m) : m[i][1] = key
    THEN [i \in 1..Len(m) |-> IF m[i][1] = key THEN <<key, v>> ELSE m[i]]
    ELSE Append(m, <<key, v>>)

RECURSIVE from_str(_)
RECURSIVE MapFromMembers(_, _)
MapFromMembers(members, m) ==
    IF members = <<>> THEN m
    ELSE IF Len(members) = 1
         THEN MapInsert(m, members[1][1], from_str(members[1][2]))
    ELSE LET h == Len(members) \div 2
             first == MapFromMembers(SubSeq(members, 1, h), m)
         IN  IF Len(first) = 0 THEN first
             ELSE MapFromMembers(SubSeq(members, h + 1, Len(members)), first)

\* serde_json::from_str on a text that parses
from_str(t) ==
    CASE t.k = "arr" -> JArr([i \in 1..Len(t.e) |-> from_str(t.e[i])])
      [] t.k = "obj" -> JObj(MapFromMembers(t.m, <<>>))
      [] OTHER -> t

RECURSIVE IsValidText(_)
IsValidText(t) ==
    CASE t.k = "invalid" -> FALSE
      [] t.k = "arr" -> \A i \in 1..Len(t.e) : IsValidText(t.e[i])
      [] t.k = "obj" -> \A i \in 1..Len(t.m) : IsValidText(t.m[i][2])
      [] OTHER -> TRUE

(***************************************************************************)
(* Number parsers used by build                                            *)
(***************************************************************************)
\* Number::as_i64 (arbitrary_precision): str::parse::<i64> of the literal,
\* <<>> for None, else << the 8 little-endian bytes >>
as_i64(n) ==
    LET mg == MagOf(n.ip)
        inRange == /\ ~mg.ovf
                   /\ FitsUnsigned(mg.m, 8)
                   /\ \/ mg.m[8] < 128
                      \/ /\ n.neg
                         /\ mg.m[8] = 128
                         /\ \A i \in 1..7 : mg.m[i] = 0
    IN  IF n.fp = <<>> /\ n.ex = <<>> /\ inRange
        THEN << TwosComplement(n.neg, mg.m, 8) >>
        ELSE <<>>

is_i64(n) == as_i64(n) # <<>>

\* largest scale rust_decimal represents
MAX_SCALE == 28

\* Decimal::from_str_exact: <<>> for Err, else << [neg, mag, scale] >>.
\* No exponent syntax, at most MAX_SCALE fraction digits, 96-bit mantissa.
from_str_exact(n) ==
    LET mg == MagOf(n.ip \o n.fp)
    IN  IF /\ n.ex = <<>>
           /\ Len(n.fp) <= MAX_SCALE
           /\ ~mg.ovf
           /\ FitsUnsigned(mg.m, 12)
        THEN << [neg |-> n.neg, mag |-> mg.m, scale |-> Len(n.fp)] >>
        ELSE <<>>

\* Decimal::mantissa: the signed unscaled value as an i128 (16 bytes)
mantissa(dec) == TwosComplement(dec.neg, dec.mag, 16)

\* i128::abs of a mantissa, as a magnitude
abs(dec) == dec.mag

MAX_UNSCALED_DECIMAL_4 == MagOf(<<9, 9, 9, 9, 9, 9, 9, 9, 9>>).m
MAX_UNSCALED_DECIMAL_8 ==
    MagOf(<<9, 9, 9, 9, 9, 9, 9, 9, 9, 9, 9, 9, 9, 9, 9, 9, 9, 9>>).m

\* the literals the model feeds to the float parser, with the IEEE-754
\* double each one rounds to (little-endian)
F64Table ==
    { << JNum(FALSE, <<1, 5>>, <<>>, <<-1>>), <<0, 0, 0, 0, 0, 0, 248, 63>> >>,
      << JNum(TRUE, <<1, 5>>, <<>>, <<-1>>), <<0, 0, 0, 0, 0, 0, 248, 191>> >>,
      << JNum(TRUE, <<3>>, <<>>, <<0>>), <<0, 0, 0, 0, 0, 0, 8, 192>> >>,
      << JNum(FALSE, <<1>>, <<>>, <<2>>), <<0, 0, 0, 0, 0, 0, 89, 64>> >>,
      << JNum(FALSE, <<1>>, <<2, 3>>, <<>>), <<174, 71, 225, 122, 20, 174, 243, 63>> >>,
      << JInt(FALSE, <<1, 2, 7>>), <<0, 0, 0, 0, 0, 192, 95, 64>> >>,
      << JNum(FALSE, <<0>>,
              <<7, 9, 2, 2, 8, 1, 6, 2, 5, 1, 4, 2, 6, 4, 3, 3, 7, 5, 9, 3, 5,
                4, 3, 9, 5, 0, 3, 3, 5>>, <<>>),
         <<71, 179, 166, 254, 94, 90, 233, 63>> >>,
      << JNum(FALSE,
              <<7, 9, 2, 2, 8, 1, 6, 2, 5, 1, 4, 2, 6, 4, 3, 3, 7, 5, 9, 3, 5,
                4, 3, 9, 5, 0, 3, 3, 6>>, <<>>, <<>>),
         <<0, 0, 0, 0, 0, 0, 240, 69>> >> }

\* whether the literal's value is within the range of finite doubles, decided
\* on the decimal exponent of its leading digit (the literals of the model
\* stay clear of the interval [1e308, f64::MAX] where the digits decide)
IsFiniteLiteral(n) == n.ex = <<>> \/ n.ex[1] + Len(n.ip) - 1 < 308

\* Number::as_f64 (arbitrary_precision): str::parse::<f64>, None (<<>>) when
\* the result is not finite
as_f64(n) ==
    IF IsFiniteLiteral(n)
    THEN << (CHOOSE e \in F64Table : e[1] = n)[2] >>
    ELSE <<>>

\* the Value::Number arm with the decimal parser tried before is_i64
NumberKindDecimalFirst(n) ==
    IF from_str_exact(n) # <<>> THEN "decimal"
    ELSE IF is_i64(n) THEN "int"
    ELSE IF as_f64(n) # <<>> THEN "double"
    ELSE "error"

\* the Value::Number arm of build: which append the literal is given to
NumberKind(n) ==
    IF is_i64(n) THEN "int"
    ELSE IF from_str_exact(n) # <<>> THEN "decimal"
    ELSE IF as_f64(n) # <<>> THEN "double"
    ELSE "error"

(***************************************************************************)
(* State of one json_to_variant call                                       *)
(***************************************************************************)
VARIABLES
    call,          \* the arguments: [json |-> text, value_size |-> *value_size on entry]
    allocator,     \* which MemoryAllocator implementation the caller passed
    value_buffer,  \* the allocator's value buffer
    requested,     \* the sizes passed to ensure_value_buffer_size so far
    value_size,    \* the caller's out-parameter *value_size
    size,          \* VariantBuilder.size, the write cursor
    size_limit,    \* VariantBuilder.size_limit
    dictionary,    \* VariantBuilder.dictionary: key -> id
    stack,         \* the build() activations: open containers and their locals
    pc,            \* "start", "building", "ok", "err" (returned Err), "panic"
    err,           \* which error was returned
    schema,        \* the data type or table schema handed to the kernel functions
    protocol,      \* the Protocol handed to validate_variant_type_feature_support
    outcome,       \* its result: "none" before the call, "Ok", "Unsupported"
    transformed,   \* what ReplaceVariantWithStructRepresentation().transform gave
    table_features_outcome,  \* the result of the validator of table_features/variant_type.rs
    uses_variant   \* the flags of the two UsesVariant visitors after the schema

builder_vars == <<call, allocator, value_buffer, requested, value_size, size,
                  size_limit, dictionary, stack, pc, err>>

kernel_vars == <<schema, protocol, outcome, transformed, table_features_outcome,
                 uses_variant>>

vars == <<builder_vars, kernel_vars>>

(***************************************************************************)
(* MemoryAllocator                                                         *)
(***************************************************************************)
\* the implementations a caller may pass: SampleMemoryAllocator; one whose
\* ensure_value_buffer_size returns Err; one that returns Ok without growing
Allocators == {"sample", "failing", "stuck"}

\* ensure_value_buffer_size handing out a fresh buffer without the copy
ensure_value_buffer_size_no_copy(alloc, buf, n) ==
    CASE alloc = "sample" ->
            [ok |-> TRUE, buf |-> IF n > BLen(buf) THEN Run(0, n) ELSE buf]
      [] alloc = "failing" -> [ok |-> FALSE, buf |-> buf]
      [] alloc = "stuck" -> [ok |-> TRUE, buf |-> buf]

\* ensure_value_buffer_size(n) on buffer buf: [ok, buf]
ensure_value_buffer_size(alloc, buf, n) ==
    CASE alloc = "sample" ->
            LET cur_len == BLen(buf)
            IN  [ok |-> TRUE,
                 buf |-> IF n > cur_len
                         THEN BWrite(Run(0, n), 0, BTake(buf, cur_len))
                         ELSE buf]
      [] alloc = "failing" -> [ok |-> FALSE, buf |-> buf]
      [] alloc = "stuck" -> [ok |-> TRUE, buf |-> buf]

(***************************************************************************)
(* VariantBuilder methods.  Each takes and returns the part of the state   *)
(* a method can change, st = [buf, size, err, req]; a method called on a   *)
(* state that already holds an error returns it as is (the `?` operator).  *)
(***************************************************************************)
RECURSIVE Pow2AtLeast(_, _)
Pow2AtLeast(n, p) == IF p >= n THEN p ELSE Pow2AtLeast(n, 2 * p)

\* the power of two above n, also when n is one itself
next_power_of_two_above(n) == Pow2AtLeast(n + 1, 1)

next_power_of_two(n) == Pow2AtLeast(n, 1)

\* check_capacity without the comparison against size_limit
check_capacity_no_limit(st, additional) ==
    IF st.err # "none" THEN st
    ELSE LET required == st.size + additional
         IN  IF required > BLen(st.buf)
             THEN LET new_size == next_power_of_two(required)
                      r == ensure_value_buffer_size(allocator, st.buf, new_size)
                  IN  [st EXCEPT !.buf = r.buf,
                                 !.req = @ \cup {new_size},
                                 !.err = IF r.ok THEN "none" ELSE "AllocationFailed"]
             ELSE st

\* check_capacity asking for the required total itself, without the rounding
check_capacity_exact_request(st, additional) ==
    IF st.err # "none" THEN st
    ELSE LET required == st.size + additional
         IN  IF required > size_limit
             THEN [st EXCEPT !.err = "SizeLimitExceeded"]
             ELSE IF required > BLen(st.buf)
             THEN LET new_size == required
                      r == ensure_value_buffer_size(allocator, st.buf, new_size)
                  IN  [st EXCEPT !.buf = r.buf,
                                 !.req = @ \cup {new_size},
                                 !.err = IF r.ok THEN "none" ELSE "AllocationFailed"]
             ELSE st

check_capacity(st, additional) ==
    IF st.err # "none" THEN st
    ELSE LET required == st.size + additional
         IN  IF required > size_limit
             THEN [st EXCEPT !.err = "SizeLimitExceeded"]
             ELSE IF required > BLen(st.buf)
             THEN LET new_size == next_power_of_two(required)
                      r == ensure_value_buffer_size(allocator, st.buf, new_size)
                  IN  [st EXCEPT !.buf = r.buf,
                                 !.req = @ \cup {new_size},
                                 !.err = IF r.ok THEN "none" ELSE "AllocationFailed"]
             ELSE st

\* write_bytes without the comparison against the length of the view
write_bytes_unchecked(st, bytes) ==
    IF st.err # "none" THEN st
    ELSE [st EXCEPT !.buf = BWrite(st.buf, st.size, bytes),
                    !.size = st.size + BLen(bytes)]

write_bytes(st, bytes) ==
    IF st.err # "none" THEN st
    ELSE IF st.size + BLen(bytes) > BLen(st.buf)
    THEN [st EXCEPT !.err = "BufferTooSmall"]
    ELSE [st EXCEPT !.buf = BWrite(st.buf, st.size, bytes),
                    !.size = st.size + BLen(bytes)]

\* (typ << 2) | PRIMITIVE on u8
write_primitive_header(st, typ) ==
    write_bytes(st, Bytes(<< ((typ * 4) % 256) + PRIMITIVE >>))

\* (size << 2) | SHORT_STR on u8
\* write_short_string_header with the tag of write_primitive_header
write_short_string_header_primitive(st, sz) ==
    write_bytes(st, Bytes(<< ((sz * 4) % 256) + PRIMITIVE >>))

write_short_string_header(st, sz) ==
    write_bytes(st, Bytes(<< ((sz * 4) % 256) + SHORT_STR >>))

append_null(st) == write_primitive_header(check_capacity(st, 1), NULL)

append_boolean(st, b) ==
    write_primitive_header(check_capacity(st, 1), IF b THEN TRUE_T ELSE FALSE_T)

\* `x as u64` from a narrower unsigned integer: zero extension
ZeroExtend(bytes, w) == [i \in 1..w |-> IF i <= Len(bytes) THEN bytes[i] ELSE 0]

\* append_int testing the widths with unsigned casts (i as u8 as i64 == i)
append_int_unsigned(st, i) ==
    LET st1 == check_capacity(st, 1 + U64_SIZE)
    IN  IF ZeroExtend(Truncate(i, 1), 8) = i
        THEN write_bytes(write_primitive_header(st1, INT1), Bytes(Truncate(i, 1)))
        ELSE IF ZeroExtend(Truncate(i, 2), 8) = i
        THEN write_bytes(write_primitive_header(st1, INT2), Bytes(Truncate(i, 2)))
        ELSE IF ZeroExtend(Truncate(i, 4), 8) = i
        THEN write_bytes(write_primitive_header(st1, INT4), Bytes(Truncate(i, 4)))
        ELSE write_bytes(write_primitive_header(st1, INT8), Bytes(i))

\* i is the i64 as its 8 little-endian bytes
append_int(st, i) ==
    LET st1 == check_capacity(st, 1 + U64_SIZE)
    IN  IF SignExtend(Truncate(i, 1), 8) = i
        THEN write_bytes(write_primitive_header(st1, INT1), Bytes(Truncate(i, 1)))
        ELSE IF SignExtend(Truncate(i, 2), 8) = i
        THEN write_bytes(write_primitive_header(st1, INT2), Bytes(Truncate(i, 2)))
        ELSE IF SignExtend(Truncate(i, 4), 8) = i
        THEN write_bytes(write_primitive_header(st1, INT4), Bytes(Truncate(i, 4)))
        ELSE write_bytes(write_primitive_header(st1, INT8), Bytes(i))

\* append_decimal with the scale bounds exclusive (scale < MAX_PRECISION)
append_decimal_exclusive(st, dec) ==
    LET st1 == check_capacity(st, 2 + 16)
        unscaled == mantissa(dec)
        scale == dec.scale
    IN  IF /\ MagLeq(abs(dec), MAX_UNSCALED_DECIMAL_4, MagWidth)
           /\ scale < MAX_PRECISION_DECIMAL_4
        THEN write_bytes(write_bytes(write_primitive_header(st1, DECIMAL4),
                                     Bytes(<<scale>>)),
                         Bytes(Truncate(unscaled, 4)))
        ELSE IF /\ MagLeq(abs(dec), MAX_UNSCALED_DECIMAL_8, MagWidth)
                /\ scale < MAX_PRECISION_DECIMAL_8
        THEN write_bytes(write_bytes(write_primitive_header(st1, DECIMAL8),
                                     Bytes(<<scale>>)),
                         Bytes(Truncate(unscaled, 8)))
        ELSE write_bytes(write_bytes(write_primitive_header(st1, DECIMAL16),
                                     Bytes(<<scale>>)),
                         Bytes(unscaled))

\* append_decimal reserving the bytes of the width it is going to write
append_decimal_reserve_written(st, dec) ==
    LET unscaled == mantissa(dec)
        scale == dec.scale
    IN  IF /\ MagLeq(abs(dec), MAX_UNSCALED_DECIMAL_4, MagWidth)
           /\ scale <= MAX_PRECISION_DECIMAL_4
        THEN write_bytes(write_bytes(write_primitive_header(check_capacity(st, 2 + 4),
                                                            DECIMAL4),
                                     Bytes(<<scale>>)),
                         Bytes(Truncate(unscaled, 4)))
        ELSE IF /\ MagLeq(abs(dec), MAX_UNSCALED_DECIMAL_8, MagWidth)
                /\ scale <= MAX_PRECISION_DECIMAL_8
        THEN write_bytes(write_bytes(write_primitive_header(check_capacity(st, 2 + 8),
                                                            DECIMAL8),
                                     Bytes(<<scale>>)),
                         Bytes(Truncate(unscaled, 8)))
        ELSE write_bytes(write_bytes(write_primitive_header(check_capacity(st, 2 + 16),
                                                            DECIMAL16),
                                     Bytes(<<scale>>)),
                         Bytes(unscaled))

append_decimal(st, dec) ==
    LET st1 == check_capacity(st, 2 + 16)
        unscaled == mantissa(dec)
        scale == dec.scale
    IN  IF /\ MagLeq(abs(dec), MAX_UNSCALED_DECIMAL_4, MagWidth)
           /\ scale <= MAX_PRECISION_DECIMAL_4
        THEN write_bytes(write_bytes(write_primitive_header(st1, DECIMAL4),
                                     Bytes(<<scale>>)),
                         Bytes(Truncate(unscaled, 4)))
        ELSE IF /\ MagLeq(abs(dec), MAX_UNSCALED_DECIMAL_8, MagWidth)
                /\ scale <= MAX_PRECISION_DECIMAL_8
        THEN write_bytes(write_bytes(write_primitive_header(st1, DECIMAL8),
                                     Bytes(<<scale>>)),
                         Bytes(Truncate(unscaled, 8)))
        ELSE write_bytes(write_bytes(write_primitive_header(st1, DECIMAL16),
                                     Bytes(<<scale>>)),
                         Bytes(unscaled))

\* f is the f64 as its 8 little-endian bytes
append_double(st, f) ==
    write_bytes(write_primitive_header(check_capacity(st, 1 + 8), DOUBLE), Bytes(f))

\* append_string taking the long form from MAX_SHORT_STR_SIZE bytes on
append_string_ge(st, s) ==
    LET len == BLen(s)
        long_str == len >= MAX_SHORT_STR_SIZE
        additional == IF long_str THEN 1 + U32_SIZE ELSE 1
        st1 == check_capacity(st, additional + len)
        st2 == IF long_str
               THEN write_bytes(write_primitive_header(st1, LONG_STR),
                                Bytes(LeBytes(len, 4)))
               ELSE write_short_string_header(st1, len)
    IN  write_bytes(st2, s)

\* s is the string's UTF-8 bytes
append_string(st, s) ==
    LET len == BLen(s)
        long_str == len > MAX_SHORT_STR_SIZE
        additional == IF long_str THEN 1 + U32_SIZE ELSE 1
        st1 == check_capacity(st, additional + len)
        st2 == IF long_str
               THEN write_bytes(write_primitive_header(st1, LONG_STR),
                                Bytes(LeBytes(len, 4)))
               ELSE write_short_string_header(st1, len)
    IN  write_bytes(st2, s)

\* shift_bytes that moves the bytes but leaves the cursor where it was
shift_bytes_no_advance(st, new_start, start, end) ==
    LET additional == new_start - start
    IN  IF st.err # "none" THEN st
        ELSE IF st.size + additional > BLen(st.buf)
        THEN [st EXCEPT !.err = "BufferTooSmall"]
        ELSE [st EXCEPT !.buf = BWrite(st.buf, new_start, BSub(st.buf, start, end))]

\* shift_bytes moving only the bytes that lie before the destination range
shift_bytes_no_overlap(st, new_start, start, end) ==
    LET additional == new_start - start
        stop == IF end < new_start THEN end ELSE new_start
    IN  IF st.err # "none" THEN st
        ELSE IF st.size + additional > BLen(st.buf)
        THEN [st EXCEPT !.err = "BufferTooSmall"]
        ELSE [st EXCEPT !.buf = BWrite(st.buf, new_start, BSub(st.buf, start, stop)),
                        !.size = st.size + additional]

shift_bytes(st, new_start, start, end) ==
    LET additional == new_start - start
    IN  IF st.err # "none" THEN st
        ELSE IF st.size + additional > BLen(st.buf)
        THEN [st EXCEPT !.err = "BufferTooSmall"]
        ELSE [st EXCEPT !.buf = BWrite(st.buf, new_start, BSub(st.buf, start, end)),
                        !.size = st.size + additional]

\* get_integer_size with the bounds taken as exclusive
get_integer_size_exclusive(value) ==
    IF value < U8_MAX THEN U8_SIZE
    ELSE IF value < U16_MAX THEN U16_SIZE
    ELSE U24_SIZE

\* get_integer_size without the third width
get_integer_size_two_widths(value) ==
    IF value <= U8_MAX THEN U8_SIZE
    ELSE U16_SIZE

get_integer_size(value) ==
    IF value <= U8_MAX THEN U8_SIZE
    ELSE IF value <= U16_MAX THEN U16_SIZE
    ELSE U24_SIZE

\* bool as u8
AsU8(b) == IF b THEN 1 ELSE 0

array_header(large_size, offset_size) ==
    ((AsU8(large_size) * 16 + (offset_size - 1) * 4) % 256) + ARRAY

object_header(large_size, id_size, offset_size) ==
    ((AsU8(large_size) * 64 + (id_size - 1) * 16 + (offset_size - 1) * 4) % 256)
    + OBJECT

\* the values of q, each in w little-endian bytes, one after the other
RECURSIVE LeTable(_, _)
LeTable(q, w) ==
    IF q = <<>> THEN <<>>
    ELSE IF Len(q) = 1 THEN Bytes(LeBytes(q[1], w))
    ELSE LET h == Len(q) \div 2
         IN  BCat(LeTable(SubSeq(q, 1, h), w), LeTable(SubSeq(q, h + 1, Len(q)), w))

\* finish_writing_array taking the terminal offset from the cursor after the
\* shift
finish_writing_array_late_size(st, start, offsets) ==
    LET data_size == st.size - start
        num_offsets == Len(offsets)
        large_size == num_offsets > U8_MAX
        size_bytes == IF large_size THEN U32_SIZE ELSE U8_SIZE
        offset_size == get_integer_size(data_size)
        header_size == 1 + size_bytes + (num_offsets + 1) * offset_size
        st1 == check_capacity(st, header_size)
        st2 == shift_bytes(st1, start + header_size, start, start + data_size)
        offset_start == start + 1 + size_bytes
        b1 == BWrite(st2.buf, start, Bytes(<<array_header(large_size, offset_size)>>))
        b2 == BWrite(b1, start + 1, Bytes(LeBytes(num_offsets, size_bytes)))
        b3 == BWrite(b2, offset_start, LeTable(offsets, offset_size))
        b4 == BWrite(b3, offset_start + num_offsets * offset_size,
                     Bytes(LeBytes(st2.size - start, offset_size)))
    IN  IF st2.err # "none" THEN st2 ELSE [st2 EXCEPT !.buf = b4]

\* finish_writing_array that leaves the count byte as it finds it
finish_writing_array_count_unwritten(st, start, offsets) ==
    LET data_size == st.size - start
        num_offsets == Len(offsets)
        large_size == num_offsets > U8_MAX
        size_bytes == IF large_size THEN U32_SIZE ELSE U8_SIZE
        offset_size == get_integer_size(data_size)
        header_size == 1 + size_bytes + (num_offsets + 1) * offset_size
        st1 == check_capacity(st, header_size)
        st2 == shift_bytes(st1, start + header_size, start, start + data_size)
        offset_start == start + 1 + size_bytes
        b1 == BWrite(st2.buf, start, Bytes(<<array_header(large_size, offset_size)>>))
        b3 == BWrite(b1, offset_start, LeTable(offsets, offset_size))
        b4 == BWrite(b3, offset_start + num_offsets * offset_size,
                     Bytes(LeBytes(data_size, offset_size)))
    IN  IF st2.err # "none" THEN st2 ELSE [st2 EXCEPT !.buf = b4]

finish_writing_array(st, start, offsets) ==
    LET data_size == st.size - start
        num_offsets == Len(offsets)
        large_size == num_offsets > U8_MAX
        size_bytes == IF large_size THEN U32_SIZE ELSE U8_SIZE
        offset_size == get_integer_size(data_size)
        header_size == 1 + size_bytes + (num_offsets + 1) * offset_size
        st1 == check_capacity(st, header_size)
        st2 == shift_bytes(st1, start + header_size, start, start + data_size)
        offset_start == start + 1 + size_bytes
        b1 == BWrite(st2.buf, start, Bytes(<<array_header(large_size, offset_size)>>))
        b2 == BWrite(b1, start + 1, Bytes(LeBytes(num_offsets, size_bytes)))
        b3 == BWrite(b2, offset_start, LeTable(offsets, offset_size))
        b4 == BWrite(b3, offset_start + num_offsets * offset_size,
                     Bytes(LeBytes(data_size, offset_size)))
    IN  IF st2.err # "none" THEN st2 ELSE [st2 EXCEPT !.buf = b4]

\* a < b for strings (str's Ord: bytewise lexicographic)
RECURSIVE StrLess(_, _)
StrLess(a, b) ==
    IF b = <<>> THEN FALSE
    ELSE IF a = <<>> THEN TRUE
    ELSE IF a[1] < b[1] THEN TRUE
    ELSE IF a[1] > b[1] THEN FALSE
    ELSE StrLess(Tail(a), Tail(b))

\* the fields left in the order they were pushed
sort_by_key_skipped(fields) == fields

\* fields.sort_by_key(|f| f.key), a stable sort: an entry goes after the
\* entries with a smaller key and after the earlier entries with an equal key
sort_by_key(fields) ==
    LET n == Len(fields)
        before(j, i) ==
            \/ StrLess(fields[j].key, fields[i].key)
            \/ j < i /\ ~StrLess(fields[i].key, fields[j].key)
        rank == SubSeq([i \in 1..n |-> Cardinality({j \in 1..n : before(j, i)})], 1, n)
    IN  SubSeq([k \in 1..n |-> fields[CHOOSE i \in 1..n : rank[i] = k - 1]], 1, n)

\* the loop over the fields that raises max_id
MaxId(fields, max_id) ==
    LET ids == {fields[i].id : i \in 1..Len(fields)} \cup {max_id}
    IN  CHOOSE m \in ids : \A x \in ids : x <= m

\* add_key taking the id after the insertion
add_key_after_insert(dict, key) ==
    IF key \in DOMAIN dict
    THEN [id |-> dict[key], dict |-> dict]
    ELSE LET id == Cardinality(DOMAIN dict) + 1
         IN  [id |-> id, dict |-> (key :> id) @@ dict]

\* add_key without the lookup: every call takes a fresh id
add_key_no_lookup(dict, key) ==
    LET id == Cardinality(DOMAIN dict)
    IN  [id |-> id, dict |-> (key :> id) @@ dict]

\* add_key: [id, dict]
add_key(dict, key) ==
    IF key \in DOMAIN dict
    THEN [id |-> dict[key], dict |-> dict]
    ELSE LET id == Cardinality(DOMAIN dict)
         IN  [id |-> id, dict |-> (key :> id) @@ dict]

\* the header block after shift_bytes: the two loops write ids and offsets;
\* the terminal offset is copied from an offset_size-byte source into an
\* id_size-byte destination, which panics unless the two are equal
write_field_ids_and_offsets(st, id_start, id_size, offset_start, offset_size, data_size, fields) ==
    LET ids == [i \in 1..Len(fields) |-> fields[i].id]
        offs == [i \in 1..Len(fields) |-> fields[i].offset]
        b1 == BWrite(st.buf, id_start, LeTable(ids, id_size))
        b2 == BWrite(b1, offset_start, LeTable(offs, offset_size))
        offset_itr == offset_start + Len(fields) * offset_size
    IN  IF id_size # offset_size
        THEN [st EXCEPT !.buf = b2, !.err = "panic"]
        ELSE [st EXCEPT !.buf = BWrite(b2, offset_itr,
                                       Bytes(LeBytes(data_size, offset_size)))]

finish_writing_object(st, start, unsorted) ==
    LET num_fields == Len(unsorted)
        fields == sort_by_key(unsorted)
        max_id == MaxId(fields, 0)
        data_size == st.size - start
        large_size == num_fields > U8_MAX
        size_bytes == IF large_size THEN U32_SIZE ELSE U8_SIZE
        id_size == get_integer_size(max_id)
        offset_size == get_integer_size(data_size)
        header_size == 1 + size_bytes + num_fields * id_size
                       + (num_fields + 1) * offset_size
        st1 == check_capacity(st, header_size)
        st2 == shift_bytes(st1, start + header_size, start, start + data_size)
        id_start == start + 1 + size_bytes
        offset_start == id_start + num_fields * id_size
        b1 == BWrite(st2.buf, start,
                     Bytes(<<object_header(large_size, id_size, offset_size)>>))
        b2 == BWrite(b1, start + 1, Bytes(LeBytes(num_fields, size_bytes)))
    IN  IF st2.err # "none" THEN st2
        ELSE write_field_ids_and_offsets([st2 EXCEPT !.buf = b2], id_start, id_size,
                                         offset_start, offset_size, data_size, fields)

(***************************************************************************)
(* Inputs                                                                  *)
(***************************************************************************)
\* bounds of the generated arrays and objects
MaxElems == 2
MaxFields == 2

Ka == <<97>>
Kb == <<98>>
Kab == <<97, 98>>
Kc == <<99>>
Knumbers == <<110, 117, 109, 98, 101, 114, 115>>
Knull == <<110, 117, 108, 108>>
Kbooleans == <<98, 111, 111, 108, 101, 97, 110, 115>>

Two96m1 == <<7, 9, 2, 2, 8, 1, 6, 2, 5, 1, 4, 2, 6, 4, 3, 3, 7, 5, 9, 3, 5, 4, 3,
             9, 5, 0, 3, 3, 5>>

\* integer literals around every width boundary
IntTexts ==
    { JInt(FALSE, <<0>>), JInt(TRUE, <<0>>), JInt(TRUE, <<1>>),
      JInt(FALSE, <<1, 2, 7>>), JInt(TRUE, <<1, 2, 8>>),
      JInt(FALSE, <<1, 2, 8>>), JInt(TRUE, <<1, 2, 9>>),
      JInt(FALSE, <<2, 7, 1, 3, 4>>),
      JInt(FALSE, <<3, 2, 7, 6, 7>>), JInt(TRUE, <<3, 2, 7, 6, 8>>),
      JInt(FALSE, <<3, 2, 7, 6, 8>>), JInt(TRUE, <<3, 2, 7, 6, 9>>),
      JInt(TRUE, <<3, 2, 7, 6, 7, 4, 3, 1>>),
      JInt(FALSE, <<2, 1, 4, 7, 4, 8, 3, 6, 4, 7>>),
      JInt(TRUE, <<2, 1, 4, 7, 4, 8, 3, 6, 4, 8>>),
      JInt(FALSE, <<2, 1, 4, 7, 4, 8, 3, 6, 4, 8>>),
      JInt(TRUE, <<2, 1, 4, 7, 4, 8, 3, 6, 4, 9>>),
      JInt(FALSE, <<9, 2, 8, 4, 2, 7, 5, 4, 2, 0, 1, 3, 8, 9>>),
      JInt(FALSE, <<9, 2, 2, 3, 3, 7, 2, 0, 3, 6, 8, 5, 4, 7, 7, 5, 8, 0, 7>>),
      JInt(TRUE, <<9, 2, 2, 3, 3, 7, 2, 0, 3, 6, 8, 5, 4, 7, 7, 5, 8, 0, 8>>) }

\* literals that are not an i64: beyond the range, or with a fraction
DecimalTexts ==
    { JInt(FALSE, <<9, 2, 2, 3, 3, 7, 2, 0, 3, 6, 8, 5, 4, 7, 7, 5, 8, 0, 8>>),
      JInt(TRUE, <<9, 2, 2, 3, 3, 7, 2, 0, 3, 6, 8, 5, 4, 7, 7, 5, 8, 0, 9>>),
      JInt(FALSE, <<9, 9, 9, 9, 9, 9, 9, 9, 9, 9, 9, 9, 9, 9, 9, 9, 9, 9, 9>>),
      JInt(FALSE, Two96m1),
      JNum(FALSE, <<1>>, <<2, 3>>, <<>>),
      JNum(FALSE, <<1>>, <<0>>, <<>>),
      JNum(TRUE, <<0>>, <<0>>, <<>>),
      JNum(FALSE, <<1>>, <<0, 0, 1>>, <<>>),
      JNum(FALSE, <<9, 9, 9, 9, 9, 9, 9, 9>>, <<9>>, <<>>),
      JNum(TRUE, <<9, 9, 9, 9, 9, 9, 9, 9>>, <<9>>, <<>>),
      JNum(FALSE, <<0>>, <<9, 9, 9, 9, 9, 9, 9, 9, 9>>, <<>>),
      JNum(TRUE, <<0>>, <<0, 0, 0, 0, 0, 0, 0, 0, 1>>, <<>>),
      JNum(FALSE, <<0>>, <<0, 0, 0, 0, 0, 0, 0, 0, 0, 1>>, <<>>),
      JNum(FALSE, <<9, 9, 9, 9, 9, 9, 9, 9, 9>>, <<0>>, <<>>),
      JNum(TRUE, <<9, 9, 9, 9, 9, 9, 9, 9, 9>>, <<0>>, <<>>),
      JNum(FALSE, <<1>>, <<0, 0, 0, 0, 0, 0, 0, 0, 0>>, <<>>),
      JNum(FALSE, <<0>>, <<9, 9, 9, 9, 9, 9, 9, 9, 9, 9, 9, 9, 9, 9, 9, 9, 9, 9>>, <<>>),
      JNum(TRUE, <<9, 9, 9, 9, 9, 9, 9, 9, 9, 9, 9, 9, 9, 9, 9, 9>>, <<9, 9>>, <<>>),
      JNum(FALSE, <<0>>, <<0, 0, 0, 0, 0, 0, 0, 0, 0, 0, 0, 0, 0, 0, 0, 0, 0, 0, 1>>, <<>>),
      JNum(FALSE, <<1>>, <<0, 0, 0, 0, 0, 0, 0, 0, 0, 0, 0, 0, 0, 0, 0, 0, 0, 0>>, <<>>),
      JNum(FALSE, <<0>>, <<9, 9, 9, 9, 9, 9, 9, 9, 9, 9, 9, 9, 9, 9, 9, 9, 9, 9, 9>>, <<>>),
      JNum(FALSE, <<7>>, Tail(Two96m1), <<>>) }

\* literals that only the float parser accepts, and one that nothing accepts
DoubleTexts ==
    {e[1] : e \in F64Table} \cup {JNum(FALSE, <<1>>, <<>>, <<999>>)}

StringTexts ==
    { JStr(<<>>), JStr(Bytes(<<104, 97, 114, 115, 104>>)),
      JStr(Run(97, 63)), JStr(Run(97, 64)), JStr(Run(98, 100000)),
      JStr(Run(120, DEFAULT_SIZE_LIMIT - 5)),
      JStr(Run(120, DEFAULT_SIZE_LIMIT - 4)) }

ScalarTexts ==
    {JNull, JBool(TRUE), JBool(FALSE)} \cup IntTexts \cup DecimalTexts
    \cup DoubleTexts \cup StringTexts

J1 == JInt(FALSE, <<1>>)
J2 == JInt(FALSE, <<2>>)
J3 == JInt(FALSE, <<3>>)
J300 == JInt(FALSE, <<3, 0, 0>>)

\* documents written out by hand: those of the crate's test, and the ones
\* that reach the size limit, a grown header, or a failing number
HandTexts ==
    { JInvalid,
      JArr(<<JInt(FALSE, <<1, 2, 7>>), JInt(FALSE, <<1, 2, 8>>),
             JInt(TRUE, <<3, 2, 7, 6, 7, 4, 3, 1>>)>>),
      JArr(<<JArr(<<JStr(Bytes(<<97>>)), JNull, JBool(TRUE), JInt(FALSE, <<4>>)>>),
             JInt(FALSE, <<1, 2, 8>>), JBool(FALSE)>>),
      JObj(<< <<Kb, J2>>, <<Ka, J1>>, <<Ka, J3>> >>),
      JObj(<< <<Knumbers,
                JArr(<<JInt(FALSE, <<4>>), JNum(TRUE, <<3>>, <<>>, <<0>>),
                       JNum(FALSE, <<1>>, <<0, 0, 1>>, <<>>)>>)>>,
              <<Knull, JNull>>,
              <<Kbooleans, JArr(<<JBool(TRUE), JBool(FALSE)>>)>> >>),
      JArr(<<JStr(Run(97, 200)), JStr(Run(98, 64)), JNull>>),
      JArr(<<JStr(Run(97, 70000)), JBool(TRUE)>>),
      JArr(<<JStr(Run(120, DEFAULT_SIZE_LIMIT - 13))>>),
      JArr(<<JStr(Run(120, DEFAULT_SIZE_LIMIT - 12))>>),
      JArr(<<JStr(Run(120, DEFAULT_SIZE_LIMIT - 20)), JNull, J1>>),
      JArr(<<JNull, JNum(FALSE, <<1>>, <<>>, <<999>>), JNull>>),
      JArr(<<JNull, JInvalid>>),
      JObj(<< <<Ka, JStr(Run(120, 300))>> >>),
      JObj(<< <<Kb, JStr(Run(120, 3))>>, <<Ka, JStr(Run(121, 70))>>,
              <<Kab, JObj(<< <<Kb, JNull>>, <<Kc, JArr(<<>>)>> >>)>> >>),
      JObj(<< <<Kb, JArr(<<JObj(<< <<Ka, J1>>, <<Kc, J2>> >>), J300>>)>>,
              <<Ka, JObj(<< <<Kc, JNull>>, <<Kb, JBool(TRUE)>> >>)>> >>),
      JObj(<< <<Ka, JObj(<< <<Kc, J1>> >>)>>, <<Kb, JObj(<< <<Ka, J2>>, <<Kab, J3>> >>)>>,
              <<Ka, JArr(<<JObj(<< <<Kb, JNull>>, <<Kbooleans, JNull>> >>)>>)>> >>),
      JObj(<< <<Kb, JInt(FALSE, <<0>>)>>, <<Ka, JInt(FALSE, <<0>>)>> >>),
      JArr(<<JStr(Run(120, 30))>>),
      JArr(<<JStr(Run(120, DEFAULT_SIZE_LIMIT - 5))>>),
      JArr(<<JStr(Run(120, DEFAULT_SIZE_LIMIT - 22)), JNum(FALSE, <<1>>, <<5>>, <<>>)>>),
      JArr(<<JStr(Run(97, U8_MAX - 5))>>),
      JArr(<<JStr(Run(97, U8_MAX - 4))>>),
      JArr(<<JStr(Run(97, U16_MAX - 5))>>),
      JArr(<<JStr(Run(97, U16_MAX - 4))>>) }

\* the i-th of the two-letter keys aa, ab, .., az, ba, ..
Key2(i) == <<97 + (i \div 26), 97 + (i % 26)>>

\* documents around the count that needs the large_size bit: arrays of 255
\* and 256 nulls, and an object of 257 members, keys in descending order
LargeTexts ==
    { JArr([i \in 1..U8_MAX |-> JNull]),
      JArr([i \in 1..(U8_MAX + 1) |-> JNull]),
      JObj([j \in 1..(U8_MAX + 2) |-> <<Key2(U8_MAX + 2 - j), JNull>>]) }

ElemTexts ==
    { JNull, J1, JStr(Bytes(<<97, 98>>)), JArr(<<JBool(TRUE)>>),
      JObj(<< <<Kb, J300>> >>) }

Keys == {Ka, Kb, Kab}

FieldTexts == { J1, JArr(<<JNull>>), JObj(<< <<Kc, JNull>> >>) }

ArrayTexts ==
    {JArr(e) : e \in UNION {[1..n -> ElemTexts] : n \in 0..MaxElems}}

ObjectTexts ==
    {JObj(m) : m \in UNION {[1..n -> Keys \X FieldTexts] : n \in 0..MaxFields}}

Texts ==
    ScalarTexts \cup HandTexts \cup LargeTexts \cup ArrayTexts \cup ObjectTexts

\* value buffers a caller may pass: the test's one zero byte, and a longer
\* one holding earlier contents
InitBuffers == { Run(0, 1), BCat(Bytes(<<170, 187>>), Run(255, 30)) }

\* values the out-parameter may hold on entry
InitValueSizes == {0, 7}

(***************************************************************************)
(* kernel/src/schema/variant_utils.rs: data types, the protocol's table    *)
(* features and the two schema visitors                                    *)
(***************************************************************************)
VARIANT_METADATA == "__VARIANT__"

\* DataType::Primitive
Primitive(ptype) == [t |-> "primitive", ptype |-> ptype]

INTEGER == Primitive("integer")

STRING_T == Primitive("string")

BINARY == Primitive("binary")

VARIANT == Primitive("variant")

ArrayType(element_type, contains_null) ==
    [t |-> "array", element_type |-> element_type, contains_null |-> contains_null]

MapType(key_type, value_type, value_contains_null) ==
    [t |-> "map", key_type |-> key_type, value_type |-> value_type,
     value_contains_null |-> value_contains_null]

\* StructField::new; the field's metadata is a set of <<key, value>> pairs
StructField(name, data_type, nullable) ==
    [name |-> name, data_type |-> data_type, nullable |-> nullable, metadata |-> {}]

\* StructField::nullable
NullableField(name, data_type) == StructField(name, data_type, TRUE)

with_metadata(field, pairs) == [field EXCEPT !.metadata = pairs]

\* DataType::struct_type / StructType::new
StructType(fields) == [t |-> "struct", fields |-> fields]

\* a struct of the two binaries that does not carry the tag
unshredded_variant_struct_schema_no_meta ==
    StructType(<< NullableField("value", BINARY), NullableField("metadata", BINARY) >>)

unshredded_variant_struct_schema ==
    StructType(<< NullableField("value", BINARY),
                  with_metadata(NullableField("metadata", BINARY),
                                {<<VARIANT_METADATA, "true">>}) >>)

is_unshredded_variant(s) == s = unshredded_variant_struct_schema

\* Protocol::try_new(3, 7, reader_features, writer_features)
Protocol(reader_features, writer_features) ==
    [reader_features |-> reader_features, writer_features |-> writer_features]

has_reader_feature(p, feature) == feature \in p.reader_features

has_writer_feature(p, feature) == feature \in p.writer_features

\* UsesVariant::transform_primitive: the visitor's flag after a primitive
UsesVariant_transform_primitive(flag, ptype) ==
    IF ptype = "variant" THEN TRUE ELSE flag

\* SchemaTransform's walk, as UsesVariant inherits it: the flag after the
\* visitor has been taken through data_type, every struct field, array
\* element, map key and map value in turn
RECURSIVE UsesVariant_transform(_, _)
RECURSIVE UsesVariant_fields(_, _)
UsesVariant_fields(flag, fields) ==
    IF fields = <<>> THEN flag
    ELSE UsesVariant_fields(UsesVariant_transform(flag, fields[1].data_type),
                            Tail(fields))

UsesVariant_transform(flag, data_type) ==
    CASE data_type.t = "primitive" ->
            UsesVariant_transform_primitive(flag, data_type.ptype)
      [] data_type.t = "array" ->
            UsesVariant_transform(flag, data_type.element_type)
      [] data_type.t = "map" ->
            UsesVariant_transform(UsesVariant_transform(flag, data_type.key_type),
                                  data_type.value_type)
      [] OTHER -> UsesVariant_fields(flag, data_type.fields)

UsesVariant_transform_struct(flag, s) == UsesVariant_fields(flag, s.fields)

\* the validator asking for a reader feature and a writer feature missing
\* at once
validate_variant_type_feature_support_both_missing(s, p) ==
    IF (~has_reader_feature(p, "variantType")
           /\ ~has_reader_feature(p, "variantTypePreview"))
       /\ (~has_writer_feature(p, "variantType")
           /\ ~has_writer_feature(p, "variantTypePreview"))
    THEN IF UsesVariant_transform_struct(FALSE, s) THEN "Unsupported" ELSE "Ok"
    ELSE "Ok"

\* the validator asking for the reader and the writer feature of the same name
validate_variant_type_feature_support_same_name(s, p) ==
    IF (~has_reader_feature(p, "variantType") \/ ~has_writer_feature(p, "variantType"))
       /\ (~has_reader_feature(p, "variantTypePreview")
           \/ ~has_writer_feature(p, "variantTypePreview"))
    THEN IF UsesVariant_transform_struct(FALSE, s) THEN "Unsupported" ELSE "Ok"
    ELSE "Ok"

validate_variant_type_feature_support(s, p) ==
    IF (~has_reader_feature(p, "variantType")
           /\ ~has_reader_feature(p, "variantTypePreview"))
       \/ (~has_writer_feature(p, "variantType")
           /\ ~has_writer_feature(p, "variantTypePreview"))
    THEN IF UsesVariant_transform_struct(FALSE, s) THEN "Unsupported" ELSE "Ok"
    ELSE "Ok"

\* a replacement that puts the untagged struct in the variant's place
transform_primitive_to_data_type_no_meta(ptype) ==
    IF ptype = "variant" THEN unshredded_variant_struct_schema_no_meta
    ELSE Primitive(ptype)

\* ReplaceVariantWithStructRepresentation::transform_primitive_to_data_type
transform_primitive_to_data_type(ptype) ==
    IF ptype = "variant" THEN unshredded_variant_struct_schema
    ELSE Primitive(ptype)

\* SchemaTransform's walk, as ReplaceVariantWithStructRepresentation
\* inherits it with should_transform_primitive_to_data_type() = true: every
\* primitive is replaced by what transform_primitive_to_data_type gives, the
\* containers are rebuilt around their transformed parts
RECURSIVE ReplaceVariant_transform(_)
ReplaceVariant_transform(data_type) ==
    CASE data_type.t = "primitive" ->
            transform_primitive_to_data_type(data_type.ptype)
      [] data_type.t = "array" ->
            [data_type EXCEPT !.element_type = ReplaceVariant_transform(@)]
      [] data_type.t = "map" ->
            [data_type EXCEPT !.key_type = ReplaceVariant_transform(@),
                              !.value_type = ReplaceVariant_transform(@)]
      [] OTHER ->
            [data_type EXCEPT !.fields =
                [i \in DOMAIN data_type.fields |->
                    [data_type.fields[i] EXCEPT
                        !.data_type = ReplaceVariant_transform(@)]]]

\* the outcome of a transform call that has not been made
NotTransformed == [t |-> "none"]

(***************************************************************************)
(* Kernel: the copies in table_features/variant_type.rs                    *)
(***************************************************************************)
\* UsesVariant::transform_primitive of table_features/variant_type.rs
variant_type_UsesVariant_transform_primitive(flag, ptype) ==
    IF ptype = "variant" THEN TRUE ELSE flag

\* SchemaTransform's walk, as this UsesVariant inherits it
RECURSIVE variant_type_UsesVariant_transform(_, _)
RECURSIVE variant_type_UsesVariant_fields(_, _)
variant_type_UsesVariant_fields(flag, fields) ==
    IF fields = <<>> THEN flag
    ELSE variant_type_UsesVariant_fields(
             variant_type_UsesVariant_transform(flag, fields[1].data_type), Tail(fields))

variant_type_UsesVariant_transform(flag, data_type) ==
    CASE data_type.t = "primitive" ->
            variant_type_UsesVariant_transform_primitive(flag, data_type.ptype)
      [] data_type.t = "array" ->
            variant_type_UsesVariant_transform(flag, data_type.element_type)
      [] data_type.t = "map" ->
            variant_type_UsesVariant_transform(
                variant_type_UsesVariant_transform(flag, data_type.key_type),
                data_type.value_type)
      [] OTHER -> variant_type_UsesVariant_fields(flag, data_type.fields)

variant_type_UsesVariant_transform_struct(flag, s) ==
    variant_type_UsesVariant_fields(flag, s.fields)

\* this file's validator with the two tests joined by "and"
variant_type_validate_variant_type_feature_support_and(s, p) ==
    IF (~has_reader_feature(p, "variantType") /\ ~has_reader_feature(p, "variantTypePreview"))
       /\ (~has_writer_feature(p, "variantType") /\ ~has_writer_feature(p, "variantTypePreview"))
    THEN IF variant_type_UsesVariant_transform_struct(FALSE, s) THEN "Unsupported" ELSE "Ok"
    ELSE "Ok"

\* validate_variant_type_feature_support of table_features/variant_type.rs,
\* with UsesVariant(false) for UsesVariant::default()
variant_type_validate_variant_type_feature_support(s, p) ==
    IF (~has_reader_feature(p, "variantType") /\ ~has_reader_feature(p, "variantTypePreview"))
       \/ (~has_writer_feature(p, "variantType") /\ ~has_writer_feature(p, "variantTypePreview"))
    THEN IF variant_type_UsesVariant_transform_struct(FALSE, s) THEN "Unsupported" ELSE "Ok"
    ELSE "Ok"

\* no visitor has been run yet
NotVisited == [visited |-> FALSE]

(***************************************************************************)
(* The schemas and protocols the kernel functions are applied to           *)
(***************************************************************************)
\* ReaderFeature / WriterFeature names a protocol may list
Features == {"variantType", "variantTypePreview", "deletionVectors"}

Protocols == {Protocol(r, w) : r \in SUBSET Features, w \in SUBSET Features}

LeafTypes == {INTEGER, STRING_T, VARIANT, unshredded_variant_struct_schema,
              unshredded_variant_struct_schema_no_meta}

\* one or two containers around a leaf
NestedTypes ==
    {ArrayType(l, b) : l \in LeafTypes, b \in BOOLEAN}
    \cup {MapType(STRING_T, l, FALSE) : l \in LeafTypes}
    \cup {MapType(VARIANT, INTEGER, TRUE)}
    \cup {StructType(<< StructField("inner_v", l, TRUE) >>) : l \in LeafTypes}
    \cup {StructType(<< NullableField("v1", VARIANT), NullableField("i1", STRING_T) >>)}
    \cup {ArrayType(MapType(STRING_T, l, TRUE), FALSE) : l \in {INTEGER, VARIANT}}
    \cup {MapType(STRING_T, ArrayType(l, TRUE), FALSE) : l \in {INTEGER, VARIANT}}
    \cup {ArrayType(StructType(<< NullableField("i", INTEGER),
                                  StructField("v", l, FALSE) >>), TRUE) :
             l \in {STRING_T, VARIANT}}

\* the struct of test_variant_schema_replace_struct
ReplaceStructInput ==
    StructType(<< NullableField("i", INTEGER),
                  NullableField("v", VARIANT),
                  NullableField("s", StructType(<< NullableField("v1", VARIANT),
                                                   NullableField("i1", STRING_T) >>)),
                  NullableField("not_variant", unshredded_variant_struct_schema) >>)

\* table schemas: an id column and one column of each type, and a column
\* that carries column-mapping metadata
Schemas ==
    {StructType(<< StructField("id", INTEGER, FALSE), StructField("v", x, TRUE) >>) :
        x \in LeafTypes \cup NestedTypes}
    \cup {StructType(<< with_metadata(NullableField("v", VARIANT),
                                      {<<"delta.columnMapping.physicalName", "col1">>}) >>),
          ReplaceStructInput}

DataTypes == LeafTypes \cup NestedTypes \cup Schemas

(***************************************************************************)
(* The call, step by step                                                  *)
(***************************************************************************)
EmptyDictionary == [key \in {} |-> 0]

Init ==
    /\ \E t \in Texts, v \in InitValueSizes :
          call = [json |-> t, value_size |-> v]
    /\ allocator \in Allocators
    /\ allocator # "sample" => call.json \in ScalarTexts \cup HandTexts
    /\ value_buffer \in InitBuffers
    /\ requested = {}
    /\ value_size = call.value_size
    /\ size = 0
    /\ size_limit = DEFAULT_SIZE_LIMIT
    /\ dictionary = EmptyDictionary
    /\ stack = <<>>
    /\ pc = "start"
    /\ err = "none"
    /\ schema = StructType(<<>>)
    /\ protocol = Protocol({}, {})
    /\ outcome = "none"
    /\ transformed = NotTransformed
    /\ table_features_outcome = "none"
    /\ uses_variant = NotVisited

\* a build() activation: the container being written and the loop's locals
Frame(kind, start, rest) ==
    [kind |-> kind, start |-> start, offs |-> <<>>, fields |-> <<>>, rest |-> rest]

\* json_to_variant up to the call of build: parse, construct the builder
Parse ==
    /\ pc = "start"
    /\ IF IsValidText(call.json)
       THEN /\ pc' = "building"
            /\ stack' = << Frame("root", 0, << from_str(call.json) >>) >>
            /\ err' = "none"
       ELSE /\ pc' = "err"
            /\ err' = "InvalidJson"
            /\ stack' = stack
    /\ UNCHANGED <<call, allocator, value_buffer, requested, value_size, size,
                   size_limit, dictionary, kernel_vars>>

Cur == stack[Len(stack)]

\* the activation on top has a value left to build
HasChild == pc = "building" /\ Cur.rest # <<>>

Child == IF Cur.kind = "obj" THEN Cur.rest[1][2] ELSE Cur.rest[1]

\* the loop body pushing the cursor itself instead of its distance from start
EnteredAbsolute ==
    CASE Cur.kind = "arr" ->
            [Cur EXCEPT !.offs = Append(@, size), !.rest = Tail(@)]
      [] Cur.kind = "obj" ->
            [Cur EXCEPT !.fields = Append(@, [key |-> Cur.rest[1][1],
                                              id |-> add_key(dictionary, Cur.rest[1][1]).id,
                                              offset |-> size]),
                        !.rest = Tail(@)]
      [] OTHER -> [Cur EXCEPT !.rest = Tail(@)]

\* the loop body up to the recursive call: push the offset, or add the key
\* and push the field entry
Entered ==
    CASE Cur.kind = "arr" ->
            [Cur EXCEPT !.offs = Append(@, size - Cur.start), !.rest = Tail(@)]
      [] Cur.kind = "obj" ->
            [Cur EXCEPT !.fields = Append(@, [key |-> Cur.rest[1][1],
                                              id |-> add_key(dictionary, Cur.rest[1][1]).id,
                                              offset |-> size - Cur.start]),
                        !.rest = Tail(@)]
      [] OTHER -> [Cur EXCEPT !.rest = Tail(@)]

DictionaryEntered ==
    IF Cur.kind = "obj" THEN add_key(dictionary, Cur.rest[1][1]).dict ELSE dictionary

St0 == [buf |-> value_buffer, size |-> size, err |-> "none", req |-> {}]

\* a builder that keeps the caller's out-parameter equal to its cursor
CommitThroughOutParam(st) ==
    /\ value_buffer' = st.buf
    /\ size' = st.size
    /\ requested' = requested \cup st.req
    /\ err' = st.err
    /\ pc' = CASE st.err = "none" -> "building"
               [] st.err = "panic" -> "panic"
               [] OTHER -> "err"
    /\ value_size' = st.size
    /\ UNCHANGED <<call, allocator, size_limit, kernel_vars>>

\* the outcome st of the methods run in this step becomes the state
Commit(st) ==
    /\ value_buffer' = st.buf
    /\ size' = st.size
    /\ requested' = requested \cup st.req
    /\ err' = st.err
    /\ pc' = CASE st.err = "none" -> "building"
               [] st.err = "panic" -> "panic"
               [] OTHER -> "err"
    /\ UNCHANGED <<call, allocator, value_size, size_limit, kernel_vars>>

\* a scalar child: the loop body and the append it dispatches to
Scalar(st) ==
    /\ Commit(st)
    /\ stack' = [stack EXCEPT ![Len(stack)] = Entered]
    /\ dictionary' = DictionaryEntered

AppendNull ==
    /\ HasChild /\ Child.k = "null"
    /\ Scalar(append_null(St0))

AppendBoolean ==
    /\ HasChild /\ Child.k = "bool"
    /\ Scalar(append_boolean(St0, Child.b))

AppendInt ==
    /\ HasChild /\ Child.k = "num" /\ NumberKind(Child) = "int"
    /\ Scalar(append_int(St0, as_i64(Child)[1]))

AppendDecimal ==
    /\ HasChild /\ Child.k = "num" /\ NumberKind(Child) = "decimal"
    /\ Scalar(append_decimal(St0, from_str_exact(Child)[1]))

AppendDouble ==
    /\ HasChild /\ Child.k = "num" /\ NumberKind(Child) = "double"
    /\ Scalar(append_double(St0, as_f64(Child)[1]))

NumberError ==
    /\ HasChild /\ Child.k = "num" /\ NumberKind(Child) = "error"
    /\ Scalar([St0 EXCEPT !.err = "NumberUnparseable"])

AppendString ==
    /\ HasChild /\ Child.k = "str"
    /\ Scalar(append_string(St0, Child.s))

\* Value::Array: record start, enter the loop
BeginArray ==
    /\ HasChild /\ Child.k = "arr"
    /\ stack' = Append([stack EXCEPT ![Len(stack)] = Entered],
                       Frame("arr", size, Child.e))
    /\ dictionary' = DictionaryEntered
    /\ UNCHANGED <<call, allocator, value_buffer, requested, value_size, size,
                   size_limit, pc, err, kernel_vars>>

\* Value::Object: record start, enter the loop
BeginObject ==
    /\ HasChild /\ Child.k = "obj"
    /\ stack' = Append([stack EXCEPT ![Len(stack)] = Entered],
                       Frame("obj", size, Child.m))
    /\ dictionary' = DictionaryEntered
    /\ UNCHANGED <<call, allocator, value_buffer, requested, value_size, size,
                   size_limit, pc, err, kernel_vars>>

\* the loop over the elements is over
FinishArray ==
    /\ pc = "building" /\ Cur.kind = "arr" /\ Cur.rest = <<>>
    /\ Commit(finish_writing_array(St0, Cur.start, Cur.offs))
    /\ stack' = SubSeq(stack, 1, Len(stack) - 1)
    /\ UNCHANGED dictionary

\* the loop over the members is over
FinishObject ==
    /\ pc = "building" /\ Cur.kind = "obj" /\ Cur.rest = <<>>
    /\ Commit(finish_writing_object(St0, Cur.start, Cur.fields))
    /\ stack' = SubSeq(stack, 1, Len(stack) - 1)
    /\ UNCHANGED dictionary

\* build returned Ok to json_to_variant
Return ==
    /\ pc = "building" /\ Cur.kind = "root" /\ Cur.rest = <<>>
    /\ value_size' = size
    /\ pc' = "ok"
    /\ UNCHANGED <<call, allocator, value_buffer, requested, size, size_limit,
                   dictionary, stack, err, kernel_vars>>

Next ==
    \/ Parse
    \/ AppendNull
    \/ AppendBoolean
    \/ AppendInt
    \/ AppendDecimal
    \/ AppendDouble
    \/ NumberError
    \/ AppendString
    \/ BeginArray
    \/ BeginObject
    \/ FinishArray
    \/ FinishObject
    \/ Return

Spec == Init /\ [][Next]_vars

(***************************************************************************)
(* The kernel's schema functions, each applied once to a data type and a   *)
(* protocol                                                                *)
(***************************************************************************)
InitSchema ==
    /\ schema \in DataTypes
    /\ protocol \in Protocols
    /\ outcome = "none"
    /\ transformed = NotTransformed
    /\ table_features_outcome = "none"
    /\ uses_variant = NotVisited
    /\ call = [json |-> JNull, value_size |-> 0]
    /\ allocator = "sample"
    /\ value_buffer = Run(0, 1)
    /\ requested = {}
    /\ value_size = 0
    /\ size = 0
    /\ size_limit = DEFAULT_SIZE_LIMIT
    /\ dictionary = EmptyDictionary
    /\ stack = <<>>
    /\ pc = "idle"
    /\ err = "none"

\* validate_variant_type_feature_support(&schema, &protocol)
Validate ==
    /\ outcome = "none"
    /\ schema.t = "struct"
    /\ outcome' = validate_variant_type_feature_support(schema, protocol)
    /\ UNCHANGED <<schema, protocol, transformed, table_features_outcome, uses_variant,
                   builder_vars>>

\* ReplaceVariantWithStructRepresentation().transform(&schema).unwrap()
Replace ==
    /\ transformed = NotTransformed
    /\ transformed' = ReplaceVariant_transform(schema)
    /\ UNCHANGED <<schema, protocol, outcome, table_features_outcome, uses_variant,
                   builder_vars>>

\* table_features::variant_type::validate_variant_type_feature_support(&schema,
\* &protocol)
ValidateTableFeatures ==
    /\ table_features_outcome = "none"
    /\ schema.t = "struct"
    /\ table_features_outcome'
          = variant_type_validate_variant_type_feature_support(schema, protocol)
    /\ UNCHANGED <<schema, protocol, outcome, transformed, uses_variant, builder_vars>>

\* each file's UsesVariant, constructed unflagged and taken through the schema
Visit ==
    /\ uses_variant = NotVisited
    /\ schema.t = "struct"
    /\ uses_variant' = [visited |-> TRUE,
                        schema |-> UsesVariant_transform_struct(FALSE, schema),
                        table_features |->
                            variant_type_UsesVariant_transform_struct(FALSE, schema)]
    /\ UNCHANGED <<schema, protocol, outcome, transformed, table_features_outcome,
                   builder_vars>>

NextSchema ==
    \/ Validate
    \/ Replace
    \/ ValidateTableFeatures
    \/ Visit

SchemaSpec == InitSchema /\ [][NextSchema]_vars

(***************************************************************************)
(* The call as a whole: build as the recursive function it is, from the    *)
(* builder b = [st, dict] to the builder after the value                   *)
(***************************************************************************)
RECURSIVE build(_, _)
RECURSIVE build_array_loop(_, _, _, _, _)
RECURSIVE build_object_loop(_, _, _, _, _)

\* for v in arr { offsets.push(self.size - start); self.build(v)?; } over
\* arr[lo..hi], b carrying the offsets pushed so far
build_array_loop(b, arr, start, lo, hi) ==
    IF lo > hi \/ b.st.err # "none" THEN b
    ELSE IF lo = hi
    THEN LET r == build([st |-> b.st, dict |-> b.dict], arr[lo])
         IN  [st |-> r.st, dict |-> r.dict,
              offsets |-> Append(b.offsets, b.st.size - start)]
    ELSE LET mid == (lo + hi) \div 2
         IN  build_array_loop(build_array_loop(b, arr, start, lo, mid),
                              arr, start, mid + 1, hi)

\* for (k, v) in mp.iter() { add_key; fields.push; self.build(v)?; } over
\* mp[lo..hi], b carrying the fields pushed so far
build_object_loop(b, mp, start, lo, hi) ==
    IF lo > hi \/ b.st.err # "none" THEN b
    ELSE IF lo = hi
    THEN LET added == add_key(b.dict, mp[lo][1])
             r == build([st |-> b.st, dict |-> added.dict], mp[lo][2])
         IN  [st |-> r.st, dict |-> r.dict,
              fields |-> Append(b.fields, [key |-> mp[lo][1], id |-> added.id,
                                           offset |-> b.st.size - start])]
    ELSE LET mid == (lo + hi) \div 2
         IN  build_object_loop(build_object_loop(b, mp, start, lo, mid),
                               mp, start, mid + 1, hi)

build(b, json) ==
    CASE json.k = "null" -> [b EXCEPT !.st = append_null(@)]
      [] json.k = "bool" -> [b EXCEPT !.st = append_boolean(@, json.b)]
      [] json.k = "num" ->
            CASE NumberKind(json) = "int" ->
                    [b EXCEPT !.st = append_int(@, as_i64(json)[1])]
              [] NumberKind(json) = "decimal" ->
                    [b EXCEPT !.st = append_decimal(@, from_str_exact(json)[1])]
              [] NumberKind(json) = "double" ->
                    [b EXCEPT !.st = append_double(@, as_f64(json)[1])]
              [] OTHER -> [b EXCEPT !.st.err = "NumberUnparseable"]
      [] json.k = "str" -> [b EXCEPT !.st = append_string(@, json.s)]
      [] json.k = "arr" ->
            LET start == b.st.size
                r == build_array_loop([st |-> b.st, dict |-> b.dict, offsets |-> <<>>],
                                      json.e, start, 1, Len(json.e))
            IN  [st |-> finish_writing_array(r.st, start, r.offsets), dict |-> r.dict]
      [] OTHER ->
            LET start == b.st.size
                r == build_object_loop([st |-> b.st, dict |-> b.dict, fields |-> <<>>],
                                       json.m, start, 1, Len(json.m))
            IN  [st |-> finish_writing_object(r.st, start, r.fields), dict |-> r.dict]

\* json_to_variant(json, &mut allocator holding buf, &mut value_size): the
\* error if any, the out-parameter and the allocator's buffer at return
json_to_variant(json, buf, out) ==
    IF ~IsValidText(json)
    THEN [err |-> "InvalidJson", value_size |-> out, buf |-> buf]
    ELSE LET vb == [st |-> [buf |-> buf, size |-> 0, err |-> "none", req |-> {}],
                    dict |-> EmptyDictionary]
             r == build(vb, from_str(json))
         IN  [err |-> r.st.err,
              value_size |-> IF r.st.err = "none" THEN r.st.size ELSE out,
              buf |-> r.st.buf]

(***************************************************************************)
(* Reading a value buffer back: the layout of the physical value that      *)
(* starts at index p, taken from its header byte                           *)
(***************************************************************************)
Basic(buf, p) == BAt(buf, p) % 4

\* the primitive sub-type, or the short string's length
Upper(buf, p) == BAt(buf, p) \div 4

IsContainer(buf, p) == Basic(buf, p) \in {OBJECT, ARRAY}

\* [n, id_size, offset_size, ids, offs, data]: count, widths, and the
\* indices where the id table, the offset table and the child data start; a
\* header whose tables would run past the end of the buffer is read as that
\* of a container without children
Layout(buf, p) ==
    LET h == BAt(buf, p)
        isObj == h % 4 = OBJECT
        large == IF isObj THEN (h \div 64) % 2 = 1 ELSE (h \div 16) % 2 = 1
        cb == IF large THEN 4 ELSE 1
        idsz == IF isObj THEN ((h \div 16) % 4) + 1 ELSE 0
        osz == ((h \div 4) % 4) + 1
        count == ReadLe(buf, p + 1, cb)
        fits == p + 1 + cb + count * idsz + (count + 1) * osz <= BLen(buf)
        n == IF fits THEN count ELSE 0
    IN  [n |-> n, id_size |-> idsz, offset_size |-> osz, large |-> large,
         ids |-> p + 1 + cb,
         offs |-> p + 1 + cb + n * idsz,
         data |-> p + 1 + cb + n * idsz + (n + 1) * osz]

\* the unsigned integer held in w <= 3 little-endian bytes behind the first
\* k of a plain sequence of bytes
LeAt(raw, k, w) ==
    raw[k + 1] + (IF w >= 2 THEN 256 * raw[k + 2] ELSE 0)
               + (IF w >= 3 THEN 65536 * raw[k + 3] ELSE 0)

\* [ids, offs]: the id table (n entries) and the offset table (n + 1
\* entries) of the container at p, read off in one pass
Table(buf, p) ==
    LET l == Layout(buf, p)
        raw == Plain(BSub(buf, l.ids, l.data))
               \o [i \in 1..(l.data - l.ids) |-> 0]
        skip == l.n * l.id_size
    IN  [ids |-> IF l.id_size = 0 THEN <<>>
                 ELSE SubSeq([i \in 1..l.n |-> LeAt(raw, (i - 1) * l.id_size, l.id_size)],
                             1, l.n),
         offs |-> SubSeq([i \in 1..(l.n + 1) |->
                             LeAt(raw, skip + (i - 1) * l.offset_size, l.offset_size)],
                         1, l.n + 1)]

\* the slice that starts with the child data of the container at p: the
\* child an offset o points to is the value at index o of it
Data(buf, p) == BDrop(buf, Layout(buf, p).data)

\* entry i (0 .. n) of the offset table, entry i (0 .. n-1) of the id table
OffAt(buf, p, i) == Table(buf, p).offs[i + 1]

IdAt(buf, p, i) == Table(buf, p).ids[i + 1]

PrimitiveSize(buf, p) ==
    LET t == Upper(buf, p)
    IN  CASE t \in {NULL, TRUE_T, FALSE_T} -> 1
          [] t = INT1 -> 2
          [] t = INT2 -> 3
          [] t = INT4 -> 5
          [] t = INT8 -> 9
          [] t = DOUBLE -> 9
          [] t = DECIMAL4 -> 6
          [] t = DECIMAL8 -> 10
          [] t = DECIMAL16 -> 18
          [] t = LONG_STR -> 5 + ReadLe(buf, p + 1, 4)
          [] OTHER -> 1

RECURSIVE SumSeq(_)
SumSeq(q) ==
    IF q = <<>> THEN 0
    ELSE IF Len(q) = 1 THEN q[1]
    ELSE LET h == Len(q) \div 2
         IN  SumSeq(SubSeq(q, 1, h)) + SumSeq(SubSeq(q, h + 1, Len(q)))

\* the size of the physical value at p: its header block plus the sizes of
\* the values its offsets point to, containers counted inline
RECURSIVE TreeSize(_, _)
TreeSize(buf, p) ==
    CASE Basic(buf, p) = PRIMITIVE -> PrimitiveSize(buf, p)
      [] Basic(buf, p) = SHORT_STR -> 1 + Upper(buf, p)
      [] OTHER ->
            LET l == Layout(buf, p)
                t == Table(buf, p)
                d == Data(buf, p)
            IN  (l.data - p) + SumSeq([i \in 1..l.n |-> TreeSize(d, t.offs[i])])

\* the parsed document of this call
Doc == from_str(call.json)

\* the metadata bytes json_to_variant hands back: it takes no metadata
\* buffer, returns the value length alone, and drops the builder with its
\* dictionary
MetadataWritten == <<>>

(***************************************************************************)
(* Properties                                                              *)
(***************************************************************************)

\* C1: when json_to_variant returns Ok, *value_size is the final write cursor
\* and is the size of the one root value found in the buffer, header blocks
\* and nested values included.
C1_ValueSizeIsRootValueSize ==
    pc = "ok" => /\ value_size = size
                 /\ value_size = TreeSize(value_buffer, 0)

\* an Ok call on an array whose first element is itself a container
C1_Witness ==
    /\ pc = "ok"
    /\ Basic(value_buffer, 0) = ARRAY
    /\ Layout(value_buffer, 0).n >= 2
    /\ IsContainer(value_buffer, Layout(value_buffer, 0).data)

\* C2: the write cursor never exceeds size_limit, and a step that ends in the
\* size-limit error has written nothing and has not moved the cursor.
C2_CursorWithinSizeLimit ==
    /\ [](size <= size_limit)
    /\ [][(err' = "SizeLimitExceeded" /\ err = "none")
            => (value_buffer' = value_buffer /\ size' = size)]_vars

\* the size-limit error raised by a container close, data already written
C2_Witness ==
    /\ pc = "err"
    /\ err = "SizeLimitExceeded"
    /\ size > 0
    /\ call.json.k = "arr"
    /\ stack = << Frame("root", 0, <<>>) >>

\* C3: when the call fails, *value_size still holds what it held on entry.
C3_ValueSizeUntouchedOnFailure ==
    pc \in {"err", "panic"} => value_size = call.value_size

\* a failure after the cursor has moved away from the caller's value
C3_Witness ==
    /\ pc = "err"
    /\ err = "BufferTooSmall"
    /\ size > 0
    /\ size # call.value_size

\* the root of the call's text is a number literal / a string
RootIsNumber == call.json.k = "num"
RootIsString == call.json.k = "str"

\* the bytes of the encoded root value
Encoded == Plain(BTake(value_buffer, value_size))

\* -2^(8w-1) <= x <= 2^(8w-1) - 1 for x = +m or -m
InSignedRange(neg, m, w) ==
    /\ FitsUnsigned(m, w)
    /\ \/ m[w] < 128
       \/ neg /\ m[w] = 128 /\ \A i \in 1..(w - 1) : m[i] = 0

\* a + b = 0 modulo 256^Len(a)
RECURSIVE SumsToZero(_, _, _, _)
SumsToZero(a, b, i, carry) ==
    IF i > Len(a) THEN TRUE
    ELSE /\ (a[i] + b[i] + carry) % 256 = 0
         /\ SumsToZero(a, b, i + 1, (a[i] + b[i] + carry) \div 256)

\* bytes is the two's complement representation of +m or -m at its width
Represents(bytes, neg, m) ==
    IF neg /\ m # ZeroMag
    THEN /\ bytes[Len(bytes)] >= 128
         /\ SumsToZero(bytes, SubSeq(m, 1, Len(bytes)), 1, 0)
    ELSE /\ bytes = SubSeq(m, 1, Len(bytes))
         /\ bytes[Len(bytes)] < 128

\* C4: an integer literal within the i64 range is written as the smallest of
\* int8/int16/int32/int64 whose range holds it: header 0x0C, 0x10, 0x14 or
\* 0x18, then 1, 2, 4 or 8 bytes, its little-endian two's complement.
C4_IntSmallestWidth ==
    LET n == call.json
        m == MagOf(n.ip).m
        w == CHOOSE v \in {1, 2, 4, 8} :
                /\ InSignedRange(n.neg, m, v)
                /\ \A u \in {1, 2, 4, 8} : u < v => ~InSignedRange(n.neg, m, u)
        header == CASE w = 1 -> 12 [] w = 2 -> 16 [] w = 4 -> 20 [] w = 8 -> 24
    IN  (/\ pc = "ok" /\ RootIsNumber /\ n.fp = <<>> /\ n.ex = <<>>
         /\ ~MagOf(n.ip).ovf /\ InSignedRange(n.neg, m, 8))
        => /\ Len(Encoded) = 1 + w
           /\ Encoded[1] = header
           /\ Represents(Tail(Encoded), n.neg, m)

\* -32769, the first value below the int16 range, written as an int32
C4_Witness ==
    /\ pc = "ok"
    /\ call.json = JInt(TRUE, <<3, 2, 7, 6, 9>>)
    /\ value_size = 5

\* q without its leading zeros
RECURSIVE StripZeros(_)
StripZeros(q) == IF q # <<>> /\ q[1] = 0 THEN StripZeros(Tail(q)) ELSE q

\* the primitive sub-types of the three decimal widths
DecimalTypes == {DECIMAL4, DECIMAL8, DECIMAL16}

\* C5: a decimal (unscaled, scale) is written as decimal4 iff |unscaled| <=
\* 999999999 (at most 9 digits) and scale <= 9, else as decimal8 iff
\* |unscaled| <= 10^18 - 1 (at most 18 digits) and scale <= 18, else as
\* decimal16: header, one scale byte, then 4, 8 or 16 bytes that still hold
\* the unscaled value.
C5_DecimalWidth ==
    LET n == call.json
        digits == Len(StripZeros(n.ip \o n.fp))
        scale == Len(n.fp)
        w == IF digits <= 9 /\ scale <= 9 THEN 4
             ELSE IF digits <= 18 /\ scale <= 18 THEN 8
             ELSE 16
        typ == CASE w = 4 -> DECIMAL4 [] w = 8 -> DECIMAL8 [] w = 16 -> DECIMAL16
    IN  (pc = "ok" /\ RootIsNumber /\ Upper(value_buffer, 0) \in DecimalTypes)
        => /\ Basic(value_buffer, 0) = PRIMITIVE
           /\ Upper(value_buffer, 0) = typ
           /\ Len(Encoded) = 2 + w
           /\ Encoded[2] = scale
           /\ Represents(SubSeq(Encoded, 3, 2 + w), n.neg, MagOf(n.ip \o n.fp).m)

\* 0.999999999999999999: unscaled 10^18 - 1 at scale 18 is still a decimal8
C5_Witness ==
    /\ pc = "ok"
    /\ call.json = JNum(FALSE, <<0>>,
                        <<9, 9, 9, 9, 9, 9, 9, 9, 9, 9, 9, 9, 9, 9, 9, 9, 9, 9>>, <<>>)
    /\ Upper(value_buffer, 0) = DECIMAL8

\* C6: a number is tried as an i64 first, then as an exact decimal, then as a
\* double, and the first that accepts it decides the type written; a number
\* none accepts fails the call.
C6_NumberClassificationOrder ==
    LET n == call.json
        t == Upper(value_buffer, 0)
        none == ~is_i64(n) /\ from_str_exact(n) = <<>> /\ as_f64(n) = <<>>
    IN  RootIsNumber =>
          /\ pc = "ok" =>
               /\ Basic(value_buffer, 0) = PRIMITIVE
               /\ is_i64(n) => t \in {INT1, INT2, INT4, INT8}
               /\ (~is_i64(n) /\ from_str_exact(n) # <<>>) => t \in DecimalTypes
               /\ (~is_i64(n) /\ from_str_exact(n) = <<>>) => t = DOUBLE
               /\ ~none
          /\ (none /\ pc \notin {"start", "building"})
                => pc = "err" /\ err = "NumberUnparseable"
          /\ err = "NumberUnparseable" => none

\* 1.23, which the float parser accepts as well, written as a decimal
C6_Witness ==
    /\ pc = "ok"
    /\ call.json = JNum(FALSE, <<1>>, <<2, 3>>, <<>>)
    /\ as_f64(call.json) # <<>>
    /\ Upper(value_buffer, 0) = DECIMAL4

\* C7: a string of L bytes is written as header (L << 2) | 1 and its bytes
\* when L <= 63, and as header 0x40, L in 4 little-endian bytes and its bytes
\* when L >= 64.
C7_StringShortOrLong ==
    LET s == call.json.s
        L == BLen(s)
    IN  (pc = "ok" /\ RootIsString) =>
          IF L <= 63
          THEN /\ BAt(value_buffer, 0) = 4 * L + 1
               /\ value_size = 1 + L
               /\ BSub(value_buffer, 1, value_size) = s
          ELSE /\ BAt(value_buffer, 0) = 64
               /\ ReadLe(value_buffer, 1, 4) = L
               /\ value_size = 5 + L
               /\ BSub(value_buffer, 5, value_size) = s

\* the shortest long string, 64 bytes
C7_Witness ==
    /\ pc = "ok"
    /\ call.json = JStr(Run(97, 64))
    /\ value_size = 69

(***************************************************************************)
(* Walking the encoded document: where in the buffer each child of a       *)
(* container of the parsed document lies                                   *)
(***************************************************************************)
\* the key the dictionary gives the id (<<256>>, no string, when it has none)
KeyOfId(id) ==
    IF \E key \in DOMAIN dictionary : dictionary[key] = id
    THEN CHOOSE key \in DOMAIN dictionary : dictionary[key] = id
    ELSE <<256>>

\* the key listed at position i (0 .. n-1) of the id table of the object at p
KeyAt(buf, p, i) == KeyOfId(IdAt(buf, p, i))

\* the place (1 .. n) in the id table ids of the entry for key (1 when
\* there is none)
IdPos(ids, key) ==
    IF key \in DOMAIN dictionary /\ \E i \in 1..Len(ids) : ids[i] = dictionary[key]
    THEN CHOOSE i \in 1..Len(ids) : ids[i] = dictionary[key]
    ELSE 1

\* the table position (0 .. n-1) that lists key
TablePos(buf, p, key) == IdPos(Table(buf, p).ids, key) - 1

\* the children of a container of the document, in document order
ChildDocs(v) ==
    IF v.k = "arr" THEN v.e ELSE [j \in 1..Len(v.m) |-> v.m[j][2]]

\* where, within the child data, the table of the container at p says each
\* of them starts (all 0 when the table has another count than the document)
ChildOffsets(buf, p, v) ==
    LET t == Table(buf, p)
        N == Len(ChildDocs(v))
    IN  IF Layout(buf, p).n # N THEN [j \in 1..N |-> 0]
        ELSE IF v.k = "arr" THEN SubSeq(t.offs, 1, N)
        ELSE SubSeq([j \in 1..N |-> t.offs[IdPos(t.ids, v.m[j][1])]], 1, N)

\* the value at p has the kind of v (and, for null, booleans and strings,
\* its content)
KindMatches(buf, p, v) ==
    CASE v.k = "null" -> BAt(buf, p) = 0
      [] v.k = "bool" -> BAt(buf, p) = IF v.b THEN 4 ELSE 8
      [] v.k = "num" -> Basic(buf, p) = PRIMITIVE /\ Upper(buf, p) \in INT1..DECIMAL16
      [] v.k = "str" ->
            IF BLen(v.s) <= 63
            THEN BSub(buf, p, p + 1 + BLen(v.s)) = BCat(Bytes(<<4 * BLen(v.s) + 1>>), v.s)
            ELSE BAt(buf, p) = 64 /\ BSub(buf, p + 5, p + 5 + BLen(v.s)) = v.s
      [] v.k = "arr" -> Basic(buf, p) = ARRAY
      [] v.k = "obj" -> Basic(buf, p) = OBJECT

\* the array v encoded at p: count, offsets that are the running sum of the
\* element sizes, elements in document order
ArrayTableOk(buf, p, v) ==
    LET l == Layout(buf, p)
        off == Table(buf, p).offs
        d == Data(buf, p)
        N == Len(v.e)
    IN  /\ Basic(buf, p) = ARRAY
        /\ l.n = N
        /\ off[1] = 0
        /\ \A i \in 1..N :
              /\ off[i + 1] = off[i] + TreeSize(d, off[i])
              /\ off[i] <= off[i + 1]
              /\ KindMatches(d, off[i], v.e[i])

RECURSIVE AllArraysOk(_, _, _)
AllArraysOk(buf, p, v) ==
    IF v.k \notin {"arr", "obj"} THEN TRUE
    ELSE LET d == Data(buf, p)
             co == ChildOffsets(buf, p, v)
         IN  /\ v.k = "arr" => ArrayTableOk(buf, p, v)
             /\ \A j \in 1..Len(co) : AllArraysOk(d, co[j], ChildDocs(v)[j])

\* C8: in every encoded array, at any depth, offset i is the sum of the sizes
\* of the elements before element i, the offsets are non-decreasing, the
\* last one is the size of the element data, and the elements follow the
\* table in document order.
C8_ArrayOffsets == pc = "ok" => AllArraysOk(value_buffer, 0, Doc)

\* an Ok call whose document holds an array of two or more elements inside
\* an object
C8_Witness ==
    /\ pc = "ok"
    /\ Doc.k = "obj"
    /\ \E j \in 1..Len(Doc.m) : Doc.m[j][2].k = "arr" /\ Len(Doc.m[j][2].e) >= 2

\* where the j-th member's value starts when the values lie in the order
\* they were encoded: at 0, or right behind the value of the member before,
\* d being the child data and co the members' starts
EncodedStart(d, co, j) ==
    IF j = 1 THEN 0 ELSE co[j - 1] + TreeSize(d, co[j - 1])

\* the object v encoded at p: the id table lists the keys in ascending
\* lexicographic order, and the offset beside each key is where that key's
\* value lies, the values lying in member order
ObjectTableOk(buf, p, v) ==
    LET l == Layout(buf, p)
        ids == Table(buf, p).ids
        d == Data(buf, p)
        N == Len(v.m)
        keys == SubSeq([i \in 1..N |-> KeyOfId(ids[i])], 1, N)
        co == ChildOffsets(buf, p, v)
    IN  /\ Basic(buf, p) = OBJECT
        /\ l.n = N
        /\ {keys[i] : i \in 1..N} = {v.m[j][1] : j \in 1..N}
        /\ \A i \in 1..(N - 1) : StrLess(keys[i], keys[i + 1])
        /\ \A j \in 1..N :
              /\ co[j] = EncodedStart(d, co, j)
              /\ KindMatches(d, co[j], v.m[j][2])

RECURSIVE AllObjectsOk(_, _, _)
AllObjectsOk(buf, p, v) ==
    IF v.k \notin {"arr", "obj"} THEN TRUE
    ELSE LET d == Data(buf, p)
             co == ChildOffsets(buf, p, v)
         IN  /\ v.k = "obj" => ObjectTableOk(buf, p, v)
             /\ \A j \in 1..Len(co) : AllObjectsOk(d, co[j], ChildDocs(v)[j])

\* C9: in every encoded object the id table lists the fields in
\* lexicographic order of their keys, the offset at position i is where the
\* value of the key at position i starts within the field data, and the
\* values lie in the order they were encoded.
C9_ObjectTableSortedByKey == pc = "ok" => AllObjectsOk(value_buffer, 0, Doc)

\* an Ok call on an object whose key order, id order and member order all
\* differ: members b, a, ab get ids 0, 1, 2 and table order a, ab, b
C9_Witness ==
    /\ pc = "ok"
    /\ Doc.k = "obj"
    /\ Len(Doc.m) = 3
    /\ Doc.m[1][1] = Kb /\ Doc.m[2][1] = Ka /\ Doc.m[3][1] = Kab
    /\ IdAt(value_buffer, 0, 0) = 1
    /\ IdAt(value_buffer, 0, 1) = 2
    /\ IdAt(value_buffer, 0, 2) = 0

\* the offsets 0 .. n of the container at p, in table order
Offsets(buf, p) == Table(buf, p).offs

\* the sizes of the values the n offsets of the container at p point to
PointedSizes(buf, p) ==
    LET n == Layout(buf, p).n
        off == Table(buf, p).offs
        d == Data(buf, p)
    IN  SubSeq([i \in 1..n |-> TreeSize(d, off[i])], 1, n)

\* the table of the container at p is non-decreasing in table order, ends
\* with the size of the child data, and entry i's value lies between
\* offset[i] and offset[i+1]
TableMonotone(buf, p) ==
    LET n == Layout(buf, p).n
        off == Offsets(buf, p)
        sz == PointedSizes(buf, p)
    IN  /\ \A i \in 1..n : off[i] <= off[i + 1]
        /\ off[n + 1] = SumSeq(sz)
        /\ \A i \in 1..n : off[i] + sz[i] = off[i + 1]

RECURSIVE AllTablesMonotone(_, _, _)
AllTablesMonotone(buf, p, v) ==
    IF v.k \notin {"arr", "obj"} THEN TRUE
    ELSE LET d == Data(buf, p)
             co == ChildOffsets(buf, p, v)
         IN  /\ TableMonotone(buf, p)
             /\ \A j \in 1..Len(co) : AllTablesMonotone(d, co[j], ChildDocs(v)[j])

\* C10 as stated: in every nested array and object the offsets are
\* non-decreasing in table order (sorted-key order for objects), the last
\* one is the size of the child data, and value[offset[i]..offset[i+1]] is
\* the i-th entry's value.
C10_Original_OffsetsNonDecreasing ==
    pc = "ok" => AllTablesMonotone(value_buffer, 0, Doc)

\* the table of the object at p ends with the size of the child data, and
\* each entry is the start of a value that runs up to the next larger entry
\* of the table
ObjectTableCovers(buf, p) ==
    LET n == Layout(buf, p).n
        off == Offsets(buf, p)
        sz == PointedSizes(buf, p)
    IN  /\ off[n + 1] = SumSeq(sz)
        /\ \A i \in 1..n :
              /\ off[i] < off[n + 1]
              /\ \E k \in 1..(n + 1) : off[k] = off[i] + sz[i]
              /\ \A k \in 1..(n + 1) : ~(off[i] < off[k] /\ off[k] < off[i] + sz[i])

\* the entries of the object v at p, taken in the order the members were
\* encoded, are non-decreasing
ObjectEncodedOrderMonotone(buf, p, v) ==
    LET co == ChildOffsets(buf, p, v)
    IN  \A j \in 1..(Len(co) - 1) : co[j] <= co[j + 1]

RECURSIVE AllTablesCover(_, _, _)
AllTablesCover(buf, p, v) ==
    IF v.k \notin {"arr", "obj"} THEN TRUE
    ELSE LET d == Data(buf, p)
             co == ChildOffsets(buf, p, v)
         IN  /\ v.k = "arr" => TableMonotone(buf, p)
             /\ v.k = "obj" => /\ ObjectTableCovers(buf, p)
                               /\ ObjectEncodedOrderMonotone(buf, p, v)
             /\ \A j \in 1..Len(co) : AllTablesCover(d, co[j], ChildDocs(v)[j])

\* C10 (amended): in every nested array the offsets are non-decreasing in
\* table order, the last one is the size of the child data and
\* value[offset[i]..offset[i+1]] is the i-th element; in every nested
\* object the last offset is the size of the child data and the entry at
\* table position i is the start of a value that runs up to the next larger
\* entry of the table, the entries being non-decreasing in the order the
\* fields were encoded and not necessarily in table order.
C10_OffsetsCoverChildData == pc = "ok" => AllTablesCover(value_buffer, 0, Doc)

\* {"b": 2, "a": 1, "a": 3}: the table lists a before b, a's value lies
\* after b's
C10_Witness ==
    /\ pc = "ok"
    /\ call.json = JObj(<< <<Kb, J2>>, <<Ka, J1>>, <<Ka, J3>> >>)
    /\ OffAt(value_buffer, 0, 0) > OffAt(value_buffer, 0, 1)

(***************************************************************************)
(* Header widths                                                           *)
(***************************************************************************)
\* the least of the widths 1, 2, 3 that holds v
MinWidth(v) == IF v <= 255 THEN 1 ELSE IF v <= 65535 THEN 2 ELSE 3

\* the largest of a sequence of ids (0 when it is empty)
LargestId(ids) ==
    LET all == {ids[i] : i \in 1..Len(ids)} \cup {0}
    IN  CHOOSE m \in all : \A x \in all : x <= m

\* the header byte of a container of the given kind with count entries, the
\* largest field id max_id and data_size bytes of child data
MinimalHeader(kind, count, max_id, data_size) ==
    IF kind = "obj"
    THEN (IF count > 255 THEN 64 ELSE 0) + (MinWidth(max_id) - 1) * 16
         + (MinWidth(data_size) - 1) * 4 + OBJECT
    ELSE (IF count > 255 THEN 16 ELSE 0) + (MinWidth(data_size) - 1) * 4 + ARRAY

\* the container v encoded at p has the minimal header, and its count lies
\* behind the header byte in 4 bytes when it is above 255 and in 1 otherwise
WidthsOk(buf, p, v) ==
    LET N == Len(ChildDocs(v))
        l == Layout(buf, p)
        data_size == SumSeq(PointedSizes(buf, p))
    IN  /\ BAt(buf, p) = MinimalHeader(v.k, N, LargestId(Table(buf, p).ids), data_size)
        /\ ReadLe(buf, p + 1, IF N > 255 THEN 4 ELSE 1) = N
        /\ l.large <=> N > 255
        /\ l.offset_size = MinWidth(data_size)
        /\ v.k = "obj" => l.id_size = MinWidth(LargestId(Table(buf, p).ids))

RECURSIVE AllWidthsOk(_, _, _)
AllWidthsOk(buf, p, v) ==
    IF v.k \notin {"arr", "obj"} THEN TRUE
    ELSE LET d == Data(buf, p)
             co == ChildOffsets(buf, p, v)
         IN  /\ WidthsOk(buf, p, v)
             /\ \A j \in 1..Len(co) : AllWidthsOk(d, co[j], ChildDocs(v)[j])

\* the step that closes the container on top of the stack leaves, at the
\* container's start, the minimal header for the entries and the child data
\* the builder holds at that point (also when the step then panics)
ClosingWritesMinimalHeader ==
    (/\ pc = "building" /\ Cur.kind \in {"arr", "obj"} /\ Cur.rest = <<>>
     /\ err' \in {"none", "panic"})
    => BAt(value_buffer', Cur.start)
          = MinimalHeader(Cur.kind,
                          IF Cur.kind = "obj" THEN Len(Cur.fields) ELSE Len(Cur.offs),
                          LargestId([i \in 1..Len(Cur.fields) |-> Cur.fields[i].id]),
                          size - Cur.start)

\* C11: every array and object, at any depth, has the minimal header:
\* offset_size is min_width of its child data size, an object's id_size is
\* min_width of its largest field id, the width fields hold width - 1, and
\* the large_size bit is set, with the count in 4 bytes instead of 1,
\* exactly when the count is above 255.
C11_HeaderWidthsMinimal ==
    /\ [](pc = "ok" => AllWidthsOk(value_buffer, 0, Doc))
    /\ [][ClosingWritesMinimalHeader]_vars

\* an Ok call on an object of more than 255 members: large_size set, ids and
\* offsets both two bytes wide
C11_Witness ==
    /\ pc = "ok"
    /\ Doc.k = "obj"
    /\ Len(Doc.m) > U8_MAX
    /\ BAt(value_buffer, 0) = 86
    /\ ReadLe(value_buffer, 1, 4) = Len(Doc.m)

(***************************************************************************)
(* The dictionary                                                          *)
(***************************************************************************)
\* the sequences of qs, one after the other
RECURSIVE ConcatAll(_)
ConcatAll(qs) ==
    IF qs = <<>> THEN <<>>
    ELSE IF Len(qs) = 1 THEN qs[1]
    ELSE LET h == Len(qs) \div 2
         IN  ConcatAll(SubSeq(qs, 1, h)) \o ConcatAll(SubSeq(qs, h + 1, Len(qs)))

\* the field names of the document v in document order, every occurrence,
\* at every depth
RECURSIVE NamesOf(_)
NamesOf(v) ==
    CASE v.k = "arr" -> ConcatAll([i \in 1..Len(v.e) |-> NamesOf(v.e[i])])
      [] v.k = "obj" ->
            ConcatAll([j \in 1..Len(v.m) |-> <<v.m[j][1]>> \o NamesOf(v.m[j][2])])
      [] OTHER -> <<>>

\* the number of distinct names before the first occurrence of key in names
FirstOrdinal(names, key) ==
    LET first == CHOOSE i \in 1..Len(names) :
                    names[i] = key /\ \A j \in 1..(i - 1) : names[j] # key
    IN  Cardinality({names[j] : j \in 1..(first - 1)})

\* the dictionary holds exactly the names of the document, each with the
\* ordinal of its first occurrence
DictionaryIsFirstOrdinals ==
    LET names == NamesOf(Doc)
    IN  /\ DOMAIN dictionary = {names[i] : i \in 1..Len(names)}
        /\ \A key \in DOMAIN dictionary : dictionary[key] = FirstOrdinal(names, key)

\* no two names share an id, and the ids are 0 .. count - 1
DictionaryIsDense ==
    /\ Cardinality({dictionary[a] : a \in DOMAIN dictionary})
          = Cardinality(DOMAIN dictionary)
    /\ \A a \in DOMAIN dictionary :
          dictionary[a] >= 0 /\ dictionary[a] < Cardinality(DOMAIN dictionary)

\* the step that enters a member of an object: a name seen before gets its
\* id back and the dictionary stays as it is, a new name gets the number of
\* names seen so far and is the one entry added
AddKeyStep ==
    (pc = "building" /\ Cur.kind = "obj" /\ Cur.rest # <<>>)
    => LET key == Cur.rest[1][1]
           pushed == stack'[Len(stack)].fields[Len(Cur.fields) + 1]
       IN  /\ pushed.key = key
           /\ IF key \in DOMAIN dictionary
              THEN pushed.id = dictionary[key] /\ dictionary' = dictionary
              ELSE /\ pushed.id = Cardinality(DOMAIN dictionary)
                   /\ DOMAIN dictionary' = DOMAIN dictionary \cup {key}
                   /\ dictionary'[key] = pushed.id
                   /\ \A other \in DOMAIN dictionary :
                         dictionary'[other] = dictionary[other]

\* C12: within one encode add_key gives every field name the number of
\* distinct names seen before its first occurrence: the k-th distinct name
\* in document order, over all objects at every depth, gets id k, a name
\* seen before gets its id back without growing the dictionary, and two
\* names never share an id.
C12_AddKeyFirstOrdinal ==
    /\ [](DictionaryIsDense)
    /\ [](pc = "ok" => DictionaryIsFirstOrdinals)
    /\ [][AddKeyStep]_vars

\* an Ok call in which names recur in nested objects: a, b, booleans, ab
\* get the ids 0 .. 3 over six occurrences
C12_Witness ==
    /\ pc = "ok"
    /\ Len(NamesOf(Doc)) = 6
    /\ Cardinality(DOMAIN dictionary) = 4
    /\ Kab \in DOMAIN dictionary
    /\ dictionary[Kab] = 3

\* every id in the id table of the object v encoded at p, and of every
\* object below it, is below count
RECURSIVE AllIdsBelow(_, _, _, _)
AllIdsBelow(buf, p, v, count) ==
    IF v.k \notin {"arr", "obj"} THEN TRUE
    ELSE LET d == Data(buf, p)
             co == ChildOffsets(buf, p, v)
             ids == Table(buf, p).ids
         IN  /\ v.k = "obj" =>
                   /\ Len(ids) = Len(v.m)
                   /\ \A i \in 1..Len(ids) : ids[i] < count
             /\ \A j \in 1..Len(co) : AllIdsBelow(d, co[j], ChildDocs(v)[j], count)

\* C13: after a successful encode every field id stored in the id table of
\* any object of the value buffer is smaller than the number of entries of
\* the dictionary that encode built.
C13_IdsBelowDictionaryCount ==
    pc = "ok" => AllIdsBelow(value_buffer, 0, Doc, Cardinality(DOMAIN dictionary))

\* an Ok call whose root object lists the ids 1, 2, 0 and holds an object
\* listing the ids 0 and 3, the dictionary having four entries
C13_Witness ==
    /\ pc = "ok"
    /\ Doc.k = "obj"
    /\ Len(Doc.m) = 3
    /\ Cardinality(DOMAIN dictionary) = 4
    /\ Table(value_buffer, 0).ids = <<1, 2, 0>>
    /\ Doc.m[3][2].k = "obj"
    /\ Table(Data(value_buffer, 0), ChildOffsets(value_buffer, 0, Doc)[3]).ids = <<0, 3>>

(***************************************************************************)
(* Basic tags                                                              *)
(***************************************************************************)
\* the basic tag the node v of the document is to carry
TagOf(v) ==
    CASE v.k \in {"null", "bool", "num"} -> 0
      [] v.k = "str" -> IF BLen(v.s) > 63 THEN 0 ELSE 1
      [] v.k = "obj" -> 2
      [] v.k = "arr" -> 3

\* the value of v at p, and every value below it, starts with a byte whose
\* low two bits are the tag of its node; null, true and false are the bytes
\* 0x00, 0x04, 0x08
RECURSIVE AllTagsOk(_, _, _)
AllTagsOk(buf, p, v) ==
    /\ BAt(buf, p) % 4 = TagOf(v)
    /\ v.k = "null" => BAt(buf, p) = 0 /\ TreeSize(buf, p) = 1
    /\ v.k = "bool" => BAt(buf, p) = (IF v.b THEN 4 ELSE 8) /\ TreeSize(buf, p) = 1
    /\ v.k \in {"arr", "obj"} =>
          LET d == Data(buf, p)
              co == ChildOffsets(buf, p, v)
          IN  \A j \in 1..Len(co) : AllTagsOk(d, co[j], ChildDocs(v)[j])

\* C14: the first byte of every physical value has basic tag 0 exactly when
\* its node is null, a boolean, a number or a long string, 1 exactly when
\* it is a short string, 2 exactly when it is an object and 3 exactly when
\* it is an array; null, true and false encode to the single bytes 0x00,
\* 0x04 and 0x08.
C14_BasicTagByKind ==
    pc = "ok" =>
        /\ AllTagsOk(value_buffer, 0, Doc)
        /\ Doc.k \in {"null", "bool"} => value_size = 1

\* an Ok call on an object (tag 2) holding a short string (1), a long string
\* (0), and an object holding null (0) and an array (3)
C14_Witness ==
    /\ pc = "ok"
    /\ Doc.k = "obj" /\ Len(Doc.m) = 3
    /\ Doc.m[1][2].k = "str" /\ Doc.m[2][2].k = "str" /\ Doc.m[3][2].k = "obj"
    /\ Basic(value_buffer, 0) = OBJECT
    /\ Basic(Data(value_buffer, 0), ChildOffsets(value_buffer, 0, Doc)[1]) = SHORT_STR
    /\ Basic(Data(value_buffer, 0), ChildOffsets(value_buffer, 0, Doc)[2]) = PRIMITIVE
    /\ Len(Doc.m[3][2].m) = 2
    /\ Doc.m[3][2].m[2][2] = JArr(<<>>)

(***************************************************************************)
(* The buffer manager                                                      *)
(***************************************************************************)
\* sizes a caller may ask for: nothing, what there is, one more, the next
\* power of two and the size limit
RequestSizes ==
    {0, BLen(value_buffer), BLen(value_buffer) + 1,
     next_power_of_two(BLen(value_buffer) + 1), DEFAULT_SIZE_LIMIT}

\* ensure_value_buffer_size(N) on the buffer as it is now: Ok, at least N
\* bytes, not shorter than before, the bytes below the previous length as
\* they were, and no change at all when N is at most the current length
EnsureKeepsContract ==
    \A N \in RequestSizes :
        LET r == ensure_value_buffer_size("sample", value_buffer, N)
        IN  /\ r.ok
            /\ BLen(r.buf) >= N
            /\ BLen(r.buf) >= BLen(value_buffer)
            /\ BTake(r.buf, BLen(value_buffer)) = value_buffer
            /\ N <= BLen(value_buffer) => r.buf = value_buffer

\* every size asked for so far is there
RequestedSizesAvailable == \A n \in requested : BLen(value_buffer) >= n

\* the lowest index the step from this state writes: a closing container
\* moves its child data from its start on, any other step appends at the
\* cursor
LowWater ==
    IF pc = "building" /\ Cur.kind \in {"arr", "obj"} /\ Cur.rest = <<>>
    THEN Cur.start ELSE size

\* a step never shortens the buffer, and keeps the bytes written before
\* the place it writes at, also when it asks for a larger buffer
StepKeepsWritten ==
    /\ BLen(value_buffer') >= BLen(value_buffer)
    /\ BTake(value_buffer', LowWater) = BTake(value_buffer, LowWater)

\* C15: with SampleMemoryAllocator, after ensure_value_buffer_size(N)
\* returned Ok every later borrow_value_buffer is a slice of at least N
\* bytes whose bytes below the previous length are the bytes that were
\* there; the length never decreases, and a request of at most the current
\* length changes nothing.
C15_SampleAllocatorContract ==
    /\ [](allocator = "sample" => EnsureKeepsContract /\ RequestedSizesAvailable)
    /\ [][allocator = "sample" => StepKeepsWritten]_vars

\* an Ok call with SampleMemoryAllocator that asked for a larger buffer
\* three times or more, the last of them with bytes already written
C15_Witness ==
    /\ pc = "ok"
    /\ allocator = "sample"
    /\ Cardinality(requested) >= 3
    /\ \A n \in requested : BLen(value_buffer) >= n
    /\ value_size > 256

(***************************************************************************)
(* Metadata                                                                *)
(***************************************************************************)
\* the keys of the dictionary in id order
KeysById ==
    LET n == Cardinality(DOMAIN dictionary)
    IN  SubSeq([i \in 1..n |-> KeyOfId(i - 1)], 1, n)

\* the metadata of the dictionary: header byte with version 1 and
\* offset_size - 1 in the top two bits, the key count, count + 1 running
\* offsets from 0 to the heap size, then the key bytes in id order
MetadataOfDictionary ==
    LET keys == KeysById
        n == Len(keys)
        heap == ConcatAll(keys)
        w == MinWidth(IF Len(heap) > n THEN Len(heap) ELSE n)
        offs == [i \in 1..(n + 1) |-> Len(ConcatAll(SubSeq(keys, 1, i - 1)))]
    IN  << VERSION + (w - 1) * 64 >> \o LeBytes(n, w)
        \o ConcatAll([i \in 1..(n + 1) |-> LeBytes(offs[i], w)]) \o heap

\* C16: after the root value is encoded the driver writes the metadata of
\* the dictionary (header byte, key count, running offsets, key bytes in
\* insertion order) and returns its length alongside the value length; for
\* {"b": 0, "a": 0} the metadata is 01 02 00 01 02 'b' 'a'.
C16_MetadataWritten ==
    pc = "ok" =>
        /\ MetadataWritten = MetadataOfDictionary
        /\ call.json = JObj(<< <<Kb, JInt(FALSE, <<0>>)>>, <<Ka, JInt(FALSE, <<0>>)>> >>)
              => MetadataWritten = <<1, 2, 0, 1, 2, 98, 97>>

(***************************************************************************)
(* Repeated keys                                                           *)
(***************************************************************************)
\* the keys of the object text t, and how often key is written in it
KeysOfText(t) == {t.m[i][1] : i \in 1..Len(t.m)}

Occurrences(t, key) == Cardinality({i \in 1..Len(t.m) : t.m[i][1] = key})

\* the text of the value the last member of t with this key has
LastValueText(t, key) ==
    t.m[CHOOSE i \in 1..Len(t.m) :
            t.m[i][1] = key /\ \A j \in (i + 1)..Len(t.m) : t.m[j][1] # key][2]

\* the texts of the children of the parsed container, in its order
ChildTexts(t) ==
    IF t.k = "arr" THEN t.e
    ELSE LET v == from_str(t)
         IN  [j \in 1..Len(v.m) |-> LastValueText(t, v.m[j][1])]

\* the entries of the id table ids that carry the id of key
EntriesOf(ids, key) ==
    IF key \in DOMAIN dictionary
    THEN Cardinality({i \in 1..Len(ids) : ids[i] = dictionary[key]})
    ELSE 0

\* the offsets of the n entries differ, and the terminal offset is the size
\* of the child data
OffsetsDifferAndEnd(buf, p) ==
    LET n == Layout(buf, p).n
        off == Table(buf, p).offs
    IN  /\ \A a, b \in 1..n : a # b => off[a] # off[b]
        /\ off[n + 1] = SumSeq(PointedSizes(buf, p))

\* the object text t encoded at p with one table entry per key/value pair
\* of the text
EntryPerOccurrence(buf, p, t) ==
    /\ Layout(buf, p).n = Len(t.m)
    /\ \A key \in KeysOfText(t) :
          /\ key \in DOMAIN dictionary
          /\ EntriesOf(Table(buf, p).ids, key) = Occurrences(t, key)
    /\ OffsetsDifferAndEnd(buf, p)

RECURSIVE AllEntryPerOccurrence(_, _, _)
AllEntryPerOccurrence(buf, p, t) ==
    IF t.k \notin {"arr", "obj"} THEN TRUE
    ELSE LET d == Data(buf, p)
             co == ChildOffsets(buf, p, from_str(t))
         IN  /\ t.k = "obj" => EntryPerOccurrence(buf, p, t)
             /\ \A j \in 1..Len(co) : AllEntryPerOccurrence(d, co[j], ChildTexts(t)[j])

\* C17 as stated: a key written more than once in an object gets one
\* dictionary entry and one entry per occurrence in the object's field
\* table: the field count is the number of key/value pairs of the text, the
\* repeated entries share the id and differ in their offsets, and the
\* terminal offset is data_size.
C17_Original_EntryPerOccurrence ==
    pc = "ok" => AllEntryPerOccurrence(value_buffer, 0, call.json)

\* the object text t encoded at p with one table entry per distinct key
EntryPerKey(buf, p, t) ==
    /\ Layout(buf, p).n = Cardinality(KeysOfText(t))
    /\ \A key \in KeysOfText(t) :
          /\ key \in DOMAIN dictionary
          /\ EntriesOf(Table(buf, p).ids, key) = 1
    /\ OffsetsDifferAndEnd(buf, p)

RECURSIVE AllEntryPerKey(_, _, _)
AllEntryPerKey(buf, p, t) ==
    IF t.k \notin {"arr", "obj"} THEN TRUE
    ELSE LET d == Data(buf, p)
             co == ChildOffsets(buf, p, from_str(t))
         IN  /\ t.k = "obj" => EntryPerKey(buf, p, t)
             /\ \A j \in 1..Len(co) : AllEntryPerKey(d, co[j], ChildTexts(t)[j])

\* C17 (amended): a key written more than once in an object gets one
\* dictionary entry and one entry in the object's field table: the field
\* count is the number of distinct keys of the text, no two entries of the
\* table share an id or an offset, and the terminal offset is data_size.
C17_EntryPerDistinctKey ==
    pc = "ok" => AllEntryPerKey(value_buffer, 0, call.json)

\* an Ok call on a text of three members, one key written twice, encoded
\* with two fields
C17_Witness ==
    /\ pc = "ok"
    /\ call.json.k = "obj"
    /\ Len(call.json.m) = 3
    /\ Occurrences(call.json, Ka) = 2
    /\ Layout(value_buffer, 0).n = 2
    /\ Cardinality(DOMAIN dictionary) = 2

\* the keys of the object text t in the order of their first occurrence
FirstOccurrenceKeys(t) ==
    LET N == Len(t.m)
        firsts == {i \in 1..N : \A j \in 1..(i - 1) : t.m[j][1] # t.m[i][1]}
        rank == SubSeq([i \in 1..N |->
                          IF i \in firsts
                          THEN Cardinality({j \in firsts : j < i}) + 1 ELSE 0], 1, N)
        K == Cardinality(firsts)
    IN  SubSeq([k \in 1..K |-> t.m[CHOOSE i \in 1..N : rank[i] = k][1]], 1, K)

\* the bytes a number alone encodes to
NumberEncoding(v) ==
    LET s0 == [buf |-> Run(0, 32), size |-> 0, err |-> "none", req |-> {}]
        st == CASE NumberKind(v) = "int" -> append_int(s0, as_i64(v)[1])
                [] NumberKind(v) = "decimal" -> append_decimal(s0, from_str_exact(v)[1])
                [] NumberKind(v) = "double" -> append_double(s0, as_f64(v)[1])
                [] OTHER -> s0
    IN  BTake(st.buf, st.size)

\* the value at p is the value of the text v: its kind, and the content of
\* a null, boolean, number or string
ValueIs(buf, p, v) ==
    IF v.k = "num"
    THEN NumberKind(v) # "error"
         /\ BSub(buf, p, p + BLen(NumberEncoding(v))) = NumberEncoding(v)
    ELSE KindMatches(buf, p, v)

\* the object text t encoded at p: one field per distinct key, the values
\* lying in the order of the keys' first occurrences, each the value of the
\* key's last occurrence
FirstPositionLastValue(buf, p, t) ==
    LET keys == FirstOccurrenceKeys(t)
        K == Len(keys)
        tb == Table(buf, p)
        d == Data(buf, p)
        at == SubSeq([j \in 1..K |-> tb.offs[IdPos(tb.ids, keys[j])]], 1, K)
    IN  /\ Layout(buf, p).n = K
        /\ \A j \in 1..K :
              /\ keys[j] \in DOMAIN dictionary
              /\ EntriesOf(tb.ids, keys[j]) = 1
              /\ at[j] = EncodedStart(d, at, j)
              /\ ValueIs(d, at[j], LastValueText(t, keys[j]))

RECURSIVE AllFirstPositionLastValue(_, _, _)
AllFirstPositionLastValue(buf, p, t) ==
    IF t.k \notin {"arr", "obj"} THEN TRUE
    ELSE LET d == Data(buf, p)
             co == ChildOffsets(buf, p, from_str(t))
         IN  /\ t.k = "obj" => FirstPositionLastValue(buf, p, t)
             /\ \A j \in 1..Len(co) :
                   AllFirstPositionLastValue(d, co[j], ChildTexts(t)[j])

\* the text {"b": 2, "a": 1, "a": 3}
RepeatedKeyText == JObj(<< <<Kb, J2>>, <<Ka, J1>>, <<Ka, J3>> >>)

\* C18: an object text with a repeated key encodes to an object with one
\* field per distinct key; the field's value lies where the key's first
\* occurrence puts it among the values and is the value of the key's last
\* occurrence, so {"b": 2, "a": 1, "a": 3} encodes to
\* 02 02 01 00 02 00 04 0C 02 0C 03.
C18_FirstPositionLastValue ==
    pc = "ok" =>
        /\ AllFirstPositionLastValue(value_buffer, 0, call.json)
        /\ call.json = RepeatedKeyText =>
              /\ value_size = 11
              /\ BTake(value_buffer, 11) = Bytes(<<2, 2, 1, 0, 2, 0, 4, 12, 2, 12, 3>>)

\* an Ok call on {"b": 2, "a": 1, "a": 3}: a's value, the int8 3, lies
\* behind b's
C18_Witness ==
    /\ pc = "ok"
    /\ call.json = RepeatedKeyText
    /\ FirstOccurrenceKeys(call.json) = <<Kb, Ka>>
    /\ BSub(Data(value_buffer, 0), 2, 4) = Bytes(<<12, 3>>)

(***************************************************************************)
(* Kernel: variant columns and the protocol's features                     *)
(***************************************************************************)
\* the primitive types at the leaves of data_type, whatever the nesting
RECURSIVE PrimitivesOf(_)
PrimitivesOf(data_type) ==
    CASE data_type.t = "primitive" -> {data_type.ptype}
      [] data_type.t = "array" -> PrimitivesOf(data_type.element_type)
      [] data_type.t = "map" ->
            PrimitivesOf(data_type.key_type) \cup PrimitivesOf(data_type.value_type)
      [] OTHER ->
            UNION {PrimitivesOf(data_type.fields[i].data_type) :
                      i \in DOMAIN data_type.fields}

ContainsVariant(data_type) == "variant" \in PrimitivesOf(data_type)

VariantFeatures == {"variantType", "variantTypePreview"}

LacksReaderFeature(p) == p.reader_features \cap VariantFeatures = {}

LacksWriterFeature(p) == p.writer_features \cap VariantFeatures = {}

\* C19: validate_variant_type_feature_support returns the 'unsupported'
\* error exactly when the schema contains a variant primitive anywhere (top
\* level or nested through structs, arrays or maps) and the protocol lacks
\* a reader feature from {variantType, variantTypePreview} or lacks a writer
\* feature from that set; it returns Ok for every schema without a variant
\* whatever the protocol, and for every schema when a reader and a writer
\* feature from the set are both present.
C19_UnsupportedIffVariantWithoutFeature ==
    outcome # "none" =>
        /\ outcome \in {"Ok", "Unsupported"}
        /\ (outcome = "Unsupported")
              <=> (ContainsVariant(schema)
                   /\ (LacksReaderFeature(protocol) \/ LacksWriterFeature(protocol)))
        /\ ~ContainsVariant(schema) => outcome = "Ok"
        /\ (~LacksReaderFeature(protocol) /\ ~LacksWriterFeature(protocol))
              => outcome = "Ok"

\* the validator has refused a table whose variant sits in a map inside an
\* array, under a protocol that has a reader feature of the set but no
\* writer feature of it
C19_Witness ==
    /\ outcome = "Unsupported"
    /\ schema = StructType(<< StructField("id", INTEGER, FALSE),
                              StructField("v", ArrayType(MapType(STRING_T, VARIANT, TRUE),
                                                         FALSE), TRUE) >>)
    /\ protocol = Protocol({"variantTypePreview"}, {"deletionVectors"})

(***************************************************************************)
(* Kernel: the physical representation of variant columns                  *)
(***************************************************************************)
\* data_type with every variant primitive and every tagged struct taken
\* for one and the same thing, and all the rest as it is
RECURSIVE UpToRepresentation(_)
UpToRepresentation(data_type) ==
    CASE data_type = VARIANT \/ is_unshredded_variant(data_type) ->
            [t |-> "variant or its tagged struct"]
      [] data_type.t = "primitive" -> data_type
      [] data_type.t = "array" ->
            [data_type EXCEPT !.element_type = UpToRepresentation(@)]
      [] data_type.t = "map" ->
            [data_type EXCEPT !.key_type = UpToRepresentation(@),
                              !.value_type = UpToRepresentation(@)]
      [] OTHER ->
            [data_type EXCEPT !.fields =
                [i \in DOMAIN data_type.fields |->
                    [data_type.fields[i] EXCEPT
                        !.data_type = UpToRepresentation(@)]]]

\* what test_variant_schema_replace_struct expects
ReplaceStructExpected ==
    StructType(<< NullableField("i", INTEGER),
                  NullableField("v", unshredded_variant_struct_schema),
                  NullableField("s", StructType(<< NullableField("v1", unshredded_variant_struct_schema),
                                                   NullableField("i1", STRING_T) >>)),
                  NullableField("not_variant", unshredded_variant_struct_schema) >>)

\* C20: ReplaceVariantWithStructRepresentation maps a data type to the same
\* type with every variant primitive, at any depth inside structs, array
\* elements and map values, replaced by the tagged struct
\* STRUCT<value: BINARY, metadata: BINARY with __VARIANT__ = "true">, and
\* leaves every other primitive, field name, nullability and
\* already-struct-shaped field unchanged; the result contains no variant
\* primitive.
C20_VariantReplacedByTaggedStruct ==
    transformed # NotTransformed =>
        /\ ~ContainsVariant(transformed)
        /\ UpToRepresentation(transformed) = UpToRepresentation(schema)
        /\ ~ContainsVariant(schema) => transformed = schema
        /\ schema = VARIANT => transformed = unshredded_variant_struct_schema
        /\ schema = ReplaceStructInput => transformed = ReplaceStructExpected

\* the struct of the crate's test has been transformed: the variants at
\* depth one and two are tagged structs, the field that already was one and
\* the string are as before
C20_Witness ==
    /\ schema = ReplaceStructInput
    /\ transformed # NotTransformed
    /\ transformed.fields[3].data_type.fields[1].data_type = unshredded_variant_struct_schema
    /\ transformed.fields[3].data_type.fields[2] = NullableField("i1", STRING_T)
    /\ transformed.fields[4] = schema.fields[4]

(***************************************************************************)
(* Object closes whose id width and offset width differ                    *)
(***************************************************************************)
\* C21: closing any object, also one whose id_size differs from its
\* offset_size, completes without aborting, and behind the N ids and the N
\* offsets lies a terminal offset equal to data_size in offset_size bytes.
C21_ObjectCloseCompletes ==
    /\ pc # "panic"
    /\ (pc = "ok" /\ Doc.k = "obj") =>
          LET l == Layout(value_buffer, 0)
          IN  /\ l.n = Len(Doc.m)
              /\ ReadLe(value_buffer, l.offs + l.n * l.offset_size, l.offset_size)
                    = value_size - l.data

(***************************************************************************)
(* Growth requests                                                         *)
(***************************************************************************)
\* the step from this state is a scalar append or a container close, the
\* steps that call check_capacity
CallsCheckCapacity ==
    /\ pc = "building"
    /\ \/ HasChild /\ Child.k \in {"null", "bool", "str"}
       \/ HasChild /\ Child.k = "num" /\ NumberKind(Child) # "error"
       \/ Cur.kind \in {"arr", "obj"} /\ Cur.rest = <<>>

\* the `additional` that step passes: 1 for null and booleans, 9 for
\* integers and doubles, 18 for decimals, header and bytes for a string, and
\* the size of the header block for a close
StepAdditional ==
    IF HasChild
    THEN CASE Child.k \in {"null", "bool"} -> 1
           [] Child.k = "num" -> IF NumberKind(Child) = "decimal" THEN 18 ELSE 9
           [] Child.k = "str" ->
                 BLen(Child.s) + (IF BLen(Child.s) > 63 THEN 5 ELSE 1)
           [] OTHER -> 0
    ELSE LET n == IF Cur.kind = "arr" THEN Len(Cur.offs) ELSE Len(Cur.fields)
             count_bytes == IF n > 255 THEN 4 ELSE 1
             ids == [i \in 1..Len(Cur.fields) |-> Cur.fields[i].id]
             id_bytes == IF Cur.kind = "obj" THEN n * MinWidth(LargestId(ids)) ELSE 0
         IN  1 + count_bytes + id_bytes + (n + 1) * MinWidth(size - Cur.start)

PowersOfTwo == {2 ^ k : k \in 0..30}

\* the least power of two that is at least n
LeastPowerOfTwo(n) == CHOOSE p \in PowersOfTwo : p >= n /\ \A q \in PowersOfTwo : q >= n => p <= q

\* what the step asks the buffer manager for: nothing when the view is long
\* enough (or the size limit is hit), else the rounded required total
ExpectedRequest ==
    LET required == size + StepAdditional
    IN  IF required > BLen(value_buffer) /\ required <= size_limit
        THEN {LeastPowerOfTwo(required)}
        ELSE {}

\* C22: check_capacity asks the buffer manager to grow only when
\* write_cursor + additional is greater than the current view length, and
\* then requests exactly next_power_of_two(write_cursor + additional); when
\* the view is already long enough no growth request is made.
C22_GrowthRequestedOnlyWhenNeeded ==
    /\ [](CallsCheckCapacity =>
            LET r == check_capacity(St0, StepAdditional)
            IN  /\ r.req = ExpectedRequest
                /\ size + StepAdditional <= BLen(value_buffer) =>
                      r.req = {} /\ r.buf = value_buffer)
    /\ [][IF CallsCheckCapacity
          THEN /\ requested' = requested \cup ExpectedRequest
               /\ ExpectedRequest = {} => BLen(value_buffer') = BLen(value_buffer)
          ELSE requested' = requested /\ BLen(value_buffer') = BLen(value_buffer)]_vars

\* an Ok call that asked once, for 16 bytes when 9 were required, and wrote
\* its 11 bytes without asking again
C22_Witness ==
    /\ pc = "ok"
    /\ allocator = "sample"
    /\ call.json = RepeatedKeyText
    /\ requested = {16}
    /\ BLen(value_buffer) = 16

(***************************************************************************)
(* A manager that reports success without growing the view                 *)
(***************************************************************************)
\* the bytes the step from this state writes at or beyond the cursor: the
\* encoding of a scalar, or the header block of a close
StepWrites ==
    IF HasChild /\ Child.k = "num"
    THEN BLen(NumberEncoding(Child))
    ELSE StepAdditional

\* C23: if the buffer manager reports success but the view is shorter than
\* write_cursor plus the bytes about to be written, the encode returns an
\* error, and no byte is written or read at an index at or beyond the view's
\* length, in scalar appends, in the shift of child data and in the header
\* backfill alike.
C23_ShortViewIsAnError ==
    /\ [](allocator = "stuck" => size <= BLen(value_buffer))
    /\ [][allocator = "stuck" =>
            /\ BLen(value_buffer') = BLen(value_buffer)
            /\ (CallsCheckCapacity /\ size + StepWrites > BLen(value_buffer)) =>
                  /\ pc' = "err"
                  /\ err' \in {"BufferTooSmall", "SizeLimitExceeded"}
                  /\ value_size' = value_size]_vars

\* the close of ["x" * 30] in a view of 32 bytes that stays 32 bytes: the 31
\* bytes of the string are written, the 4 bytes of the header do not fit
C23_Witness ==
    /\ allocator = "stuck"
    /\ call.json = JArr(<<JStr(Run(120, 30))>>)
    /\ pc = "err"
    /\ err = "BufferTooSmall"
    /\ size = 31
    /\ requested = {64}
    /\ BLen(value_buffer) = 32

(***************************************************************************)
(* Kernel: which reader feature goes with which writer feature             *)
(***************************************************************************)
\* the reader and the writer list hold the feature of the same name
MatchedPair(p) ==
    \E f \in VariantFeatures : f \in p.reader_features /\ f \in p.writer_features

\* the reader list holds one of the two features and the writer list the other
MixedPair(p) ==
    \E f, g \in VariantFeatures :
        f # g /\ f \in p.reader_features /\ g \in p.writer_features

\* C24 as stated: for a schema containing a variant the validator accepts
\* the protocol only when its reader and writer variant features form a
\* matched pair (variantType with variantType, or variantTypePreview with
\* variantTypePreview); a stable reader with a preview writer, or a preview
\* reader with a stable writer, is rejected.
C24_Original_OnlyMatchedPairs ==
    (outcome # "none" /\ ContainsVariant(schema)) =>
        /\ outcome = "Ok" => MatchedPair(protocol)
        /\ ~MatchedPair(protocol) => outcome = "Unsupported"

\* C24: for a schema containing a variant the validator accepts the protocol
\* exactly when the reader list holds a feature of {variantType,
\* variantTypePreview} and the writer list holds one, of the same name or
\* not: matched pairs are accepted, and so are a stable reader with a
\* preview writer and a preview reader with a stable writer.
C24_AnyReaderWithAnyWriter ==
    (outcome # "none" /\ ContainsVariant(schema)) =>
        /\ MatchedPair(protocol) => outcome = "Ok"
        /\ MixedPair(protocol) => outcome = "Ok"
        /\ outcome = "Ok" => MatchedPair(protocol) \/ MixedPair(protocol)
        /\ outcome \in {"Ok", "Unsupported"}

\* a table with a variant column accepted under a stable reader feature and
\* a preview writer feature
C24_Witness ==
    /\ outcome = "Ok"
    /\ ContainsVariant(schema)
    /\ schema.t = "struct"
    /\ protocol = Protocol({"variantType"}, {"variantTypePreview"})

(***************************************************************************)
(* What a close does to the bytes already written                          *)
(***************************************************************************)
\* the step from this state closes the current array or object
Closing == pc = "building" /\ Cur.kind \in {"arr", "obj"} /\ Cur.rest = <<>>

\* C25: closing a container that started at cursor position start leaves
\* every byte below start unchanged, and the data_size child bytes that
\* were at [start, start + data_size) are found unchanged, in the same order,
\* at [start + header_size, start + header_size + data_size) after it, also
\* when the two ranges overlap; the cursor grows by exactly header_size.
C25_CloseMovesChildDataIntact ==
    [][(Closing /\ pc' # "err") =>
          LET start == Cur.start
              data_size == size - start
              header_size == StepAdditional
          IN  /\ BTake(value_buffer', start) = BTake(value_buffer, start)
              /\ BSub(value_buffer', start + header_size,
                      start + header_size + data_size)
                    = BSub(value_buffer, start, start + data_size)
              /\ size' = size + header_size]_vars

\* ["a" * 200, "b" * 64, null] closed: 275 bytes of child data moved over
\* themselves by the 10 bytes of the header
C25_Witness ==
    /\ pc = "ok"
    /\ call.json = JArr(<<JStr(Run(97, 200)), JStr(Run(98, 64)), JNull>>)
    /\ value_size = 285
    /\ BSub(value_buffer, 10, 285)
          = BCat(BCat(BCat(Bytes(<<LONG_STR * 4 + PRIMITIVE, 200, 0, 0, 0>>), Run(97, 200)),
                      BCat(Bytes(<<LONG_STR * 4 + PRIMITIVE, 64, 0, 0, 0>>), Run(98, 64))),
                 Bytes(<<0>>))

(***************************************************************************)
(* Documents that fit under the size limit                                 *)
(***************************************************************************)
\* the number of bytes the complete encoding of the parsed document v takes,
\* names being the field names of the whole document in document order
RECURSIVE EncodedSize(_, _)
EncodedSize(v, names) ==
    CASE v.k \in {"null", "bool"} -> 1
      [] v.k = "num" -> BLen(NumberEncoding(v))
      [] v.k = "str" -> BLen(v.s) + (IF BLen(v.s) > 63 THEN 5 ELSE 1)
      [] v.k = "arr" ->
            LET n == Len(v.e)
                data == SumSeq([i \in 1..n |-> EncodedSize(v.e[i], names)])
            IN  1 + (IF n > 255 THEN 4 ELSE 1) + (n + 1) * MinWidth(data) + data
      [] v.k = "obj" ->
            LET n == Len(v.m)
                data == SumSeq([j \in 1..n |-> EncodedSize(v.m[j][2], names)])
                ids == [j \in 1..n |-> FirstOrdinal(names, v.m[j][1])]
            IN  1 + (IF n > 255 THEN 4 ELSE 1) + n * MinWidth(LargestId(ids))
                + (n + 1) * MinWidth(data) + data
      [] OTHER -> 0

\* what a scalar append may reserve beyond the bytes it writes: 18 for the
\* 6 bytes of a decimal4
MaxOverReserve == (2 + 16) - (2 + 4)

\* C26 as stated: with an allocator that never fails the size-limit error is
\* returned only for a document whose complete value encoding takes more
\* than size_limit bytes, and at a step whose bytes would push the cursor
\* past size_limit.
C26_Original_FittingDocumentSucceeds ==
    /\ []((allocator = "sample" /\ pc = "err" /\ err = "SizeLimitExceeded") =>
             EncodedSize(Doc, NamesOf(Doc)) > size_limit)
    /\ [][(allocator = "sample" /\ pc' = "err" /\ err' = "SizeLimitExceeded") =>
             (CallsCheckCapacity /\ size + StepWrites > size_limit)]_vars

\* C26: the size-limit error is returned exactly at the scalar append or
\* close whose reserved capacity (1 for null and booleans, 9 for every
\* integer and double, 18 for every decimal, header and bytes of a string,
\* the header block of a close) would push the cursor past size_limit; it is
\* never returned for a document whose encoding is 12 or more bytes below
\* size_limit, but a document within 12 bytes of it can be refused.
C26_LimitAppliesToReservedCapacity ==
    /\ []((pc = "err" /\ err = "SizeLimitExceeded") =>
             EncodedSize(Doc, NamesOf(Doc)) + MaxOverReserve > size_limit)
    /\ [][(pc' = "err" /\ err' = "SizeLimitExceeded")
             <=> (CallsCheckCapacity /\ size + StepAdditional > size_limit)]_vars

\* ["x" * 16777194, 1.5], whose encoding takes exactly 16 MiB, refused at
\* the decimal: 18 bytes asked for with 17 left, 6 needed
C26_Witness ==
    /\ allocator = "sample"
    /\ pc = "err"
    /\ err = "SizeLimitExceeded"
    /\ EncodedSize(Doc, NamesOf(Doc)) = size_limit
    /\ Doc.k = "arr" /\ NumberKind(Doc.e[Len(Doc.e)]) = "decimal"
    /\ size = size_limit - 17

(***************************************************************************)
(* Widths wide enough for what is written in them                          *)
(***************************************************************************)
\* C27: under the default 16 MiB size limit no value is truncated when it
\* is written in its chosen width: at every close that writes its header,
\* every element or field offset and the terminal data_size are below
\* 256^offset_size, every field id is below 256^id_size and the count is
\* below 256^size_bytes, the 3-byte width chosen for every value above 65535
\* included; the terminal offset reads back as data_size.
C27_NoValueTruncated ==
    [][(Closing /\ pc' # "err") =>
          LET data_size == size - Cur.start
              n == IF Cur.kind = "arr" THEN Len(Cur.offs) ELSE Len(Cur.fields)
              offsets == IF Cur.kind = "arr" THEN Cur.offs
                         ELSE [i \in 1..n |-> Cur.fields[i].offset]
              ids == IF Cur.kind = "arr" THEN <<>>
                     ELSE [i \in 1..n |-> Cur.fields[i].id]
              size_bytes == IF n > U8_MAX THEN U32_SIZE ELSE U8_SIZE
              offset_size == get_integer_size(data_size)
              id_size == get_integer_size(LargestId(ids))
              terminal == Cur.start + 1 + size_bytes + Len(ids) * id_size + n * offset_size
          IN  /\ size_limit = DEFAULT_SIZE_LIMIT
              /\ data_size < Pow256(offset_size)
              /\ \A i \in 1..n : offsets[i] >= 0 /\ offsets[i] < Pow256(offset_size)
              /\ \A i \in 1..Len(ids) : ids[i] >= 0 /\ ids[i] < Pow256(id_size)
              /\ IF size_bytes = U8_SIZE THEN n < Pow256(U8_SIZE)
                 ELSE n \div Pow256(U24_SIZE) < 256
              /\ pc' = "building" =>
                    ReadLe(value_buffer', terminal, offset_size) = data_size]_vars

\* ["a" * 70000, true] closed with 3-byte offsets: the terminal offset
\* 70006 is in the buffer with its third byte
C27_Witness ==
    /\ pc = "ok"
    /\ call.json = JArr(<<JStr(Run(97, 70000)), JBool(TRUE)>>)
    /\ value_size = 11 + 70006
    /\ BSub(value_buffer, 8, 11) = Bytes(<<70006 % 256, (70006 \div 256) % 256, 1>>)

(***************************************************************************)
(* Growth requests and the size limit                                      *)
(***************************************************************************)
\* C28: every size the encoder passes to ensure_value_buffer_size is at
\* most size_limit: rounding the required total up to the next power of two
\* never asks the buffer manager for more than the configured ceiling, the
\* 16 MiB json_to_variant constructs the builder with.
C28_RequestsWithinSizeLimit ==
    /\ size_limit = DEFAULT_SIZE_LIMIT
    /\ \A n \in requested : n >= 1 /\ n <= size_limit
    /\ CallsCheckCapacity =>
          \A n \in check_capacity(St0, StepAdditional).req : n <= size_limit

\* a string whose 16777216 bytes are the whole limit: the request is for
\* the limit itself, and the call is Ok
C28_Witness ==
    /\ pc = "ok"
    /\ call.json = JStr(Run(120, DEFAULT_SIZE_LIMIT - 5))
    /\ value_size = DEFAULT_SIZE_LIMIT
    /\ requested = {DEFAULT_SIZE_LIMIT}

(***************************************************************************)
(* Two runs on the same text                                               *)
(***************************************************************************)
\* the call is over: returned Ok, returned an error, or aborted
CallOver == pc \in {"ok", "err", "panic"}

\* a second run on the text of this call, its allocator starting from the
\* buffer buf, has the outcome of this one: Ok or not, and if Ok the same
\* value_size and the same bytes below it
SecondRunAgrees(buf) ==
    LET r == json_to_variant(call.json, buf, 0)
    IN  /\ (r.err = "none") <=> (pc = "ok")
        /\ pc = "ok" =>
              /\ r.value_size = value_size
              /\ BTake(r.buf, r.value_size) = BTake(value_buffer, value_size)

\* C29 as stated: two runs on the same input with contract-abiding
\* allocators (one that grows the buffer, or one that reports that it
\* cannot) whose initial buffers differ in length and prior contents both
\* succeed or both fail, and on success return the same value_size and the
\* same bytes in [0, value_size).
C29_Original_AnyContractAbidingAllocator ==
    (CallOver /\ allocator \in {"sample", "failing"}) =>
        \A buf \in InitBuffers : SecondRunAgrees(buf)

\* C29: with allocators that never refuse to grow, the result depends only
\* on the JSON text: two runs on the same input from initial buffers that
\* differ in length and prior contents both succeed or both fail, and on
\* success return the same value_size and the same bytes in [0, value_size).
C29_ResultDependsOnTextOnly ==
    (CallOver /\ allocator = "sample") =>
        \A buf \in InitBuffers :
            /\ SecondRunAgrees(buf)
            /\ json_to_variant(call.json, buf, 0).err = err

\* [null] encoded from the buffer that held 170, 187, 255, ..: the 187 at
\* index 1 has given way to the count
C29_Witness ==
    /\ pc = "ok"
    /\ allocator = "sample"
    /\ call.json = JArr(<<JNull>>)
    /\ BLen(value_buffer) = 32
    /\ BTake(value_buffer, value_size) = Bytes(<<ARRAY, 1, 0, 1, 0>>)
    /\ BSub(value_buffer, 5, 8) = Run(255, 3)

(***************************************************************************)
(* Kernel: the two copies of the validator                                 *)
(***************************************************************************)
\* C30: the two definitions of validate_variant_type_feature_support (in
\* schema/variant_utils.rs and in table_features/variant_type.rs) are
\* equivalent: for every schema and every protocol they both return Ok or
\* both return the same 'unsupported' error, and their UsesVariant visitors
\* flag exactly the same schemas.
C30_TwoValidatorsAgree ==
    /\ (outcome # "none" /\ table_features_outcome # "none") =>
           outcome = table_features_outcome
    /\ uses_variant.visited =>
           /\ uses_variant.schema = uses_variant.table_features
           /\ uses_variant.schema <=> ContainsVariant(schema)

\* both validators have refused a table with a nested variant under a
\* protocol without the writer feature, and both visitors have flagged it
C30_Witness ==
    /\ outcome = "Unsupported"
    /\ table_features_outcome = "Unsupported"
    /\ uses_variant.visited /\ uses_variant.schema /\ uses_variant.table_features
    /\ protocol = Protocol({"variantType"}, {})
    /\ \E i \in DOMAIN schema.fields : schema.fields[i].data_type.t = "struct"

====
